---- MODULE Spec2Model ----
(***************************************************************************)
(* External ingestion synchronization of CHM: the partner HTTP client      *)
(* (app/ingestion/client.py), the event mapper (app/ingestion/mapper.py),  *)
(* the orchestrator (app/ingestion/job.py), the run upsert                 *)
(* (app/db/repository/runs.py) and the HTTP trigger that owns the          *)
(* transaction (app/api/ingestion.py).                                     *)
(*                                                                         *)
(* Python values are tagged records, one field name per type, so that      *)
(* values of different Python types can be compared:                       *)
(*   None -> [t |-> "null"], "x" -> [t |-> "str", s |-> "x"],              *)
(*   7 -> [t |-> "int", i |-> 7], [..] -> [t |-> "list", l |-> <<..>>],    *)
(*   a missing dict key -> [t |-> "absent"].                               *)
(* Library conversions on strings (str.strip, str.lower, int, float,       *)
(* datetime.fromisoformat) are given by their values on the strings the    *)
(* model uses.  Durations are in milliseconds, timestamps in minutes.      *)
(*                                                                         *)
(* Spec is one handler of the trigger at a time, with every HTTP attempt   *)
(* of the client as a step; ConcSpec is two requests to the trigger        *)
(* handled side by side, each in its own database transaction; WideSpec    *)
(* is a single pass of the same handler over a wider range of partner      *)
(* data; LiveSpec is a single pass with the fairness of a running thread.  *)
(***************************************************************************)
EXTENDS Integers, Sequences, FiniteSets, TLC

\* ------------------------------------------------------------------ bounds
\* Number of trigger invocations explored.
MaxPasses == 2
\* The client's max_retries setting (http_max_retries) explored.
MaxRetriesCfg == 2
\* Pages followed when a page chain of the partner is walked.
MaxPages == 4
\* The page and run counters of a pipeline are recorded up to this value.
MaxCount == 20
\* The fetch_runs calls and upserts of a pass are recorded up to this many.
MaxOps == 32

\* -------------------------------------------------------- program constants
\* DEFAULT_HTTP_BACKOFF_SECONDS = 1.0, in milliseconds.
BackoffMs == 1000

\* ------------------------------------------------------------ Python values
None == [t |-> "null"]
Absent == [t |-> "absent"]
JStr(x) == [t |-> "str", s |-> x]
JInt(n) == [t |-> "int", i |-> n]
JList(q) == [t |-> "list", l |-> q]

\* dict.get(key): a missing key reads as None.
Get(raw, key) == IF raw[key].t = "absent" THEN None ELSE raw[key]

\* 'value in (None, "")'
IsNoneOrEmpty(v) == v.t = "null" \/ (v.t = "str" /\ v.s = "")

\* str(value) on the integers the model uses; a str is returned unchanged.
IntToStr(n) ==
    CASE n = 0 -> "0"
      [] n = 7 -> "7"
      [] n = 120 -> "120"
      [] n = 300 -> "300"
      [] n = -5 -> "-5"
      [] OTHER -> "<int>"

PyStr(v) ==
    CASE v.t = "str" -> v.s
      [] v.t = "int" -> IntToStr(v.i)
      [] OTHER -> "None"

\* ------------------------------------------------------------------ mapper
RunStatusEnum == {"running", "success", "failed", "canceled", "skipped"}

STATUS_KEYS ==
    {"running", "in_progress", "queued", "pending", "success", "succeeded",
     "completed", "failed", "failure", "error", "errored", "canceled",
     "cancelled", "aborted", "skipped"}

\* Mutant: the British spelling and aborted keep a name of their own.
STATUS_MAP_Cancelled(k) ==
    CASE k \in {"running", "in_progress", "queued", "pending"} -> "running"
      [] k \in {"success", "succeeded", "completed"} -> "success"
      [] k \in {"failed", "failure", "error", "errored"} -> "failed"
      [] k = "canceled" -> "canceled"
      [] k \in {"cancelled", "aborted"} -> "cancelled"
      [] k = "skipped" -> "skipped"

\* _STATUS_MAP[k] for k in STATUS_KEYS
STATUS_MAP(k) ==
    CASE k \in {"running", "in_progress", "queued", "pending"} -> "running"
      [] k \in {"success", "succeeded", "completed"} -> "success"
      [] k \in {"failed", "failure", "error", "errored"} -> "failed"
      [] k \in {"canceled", "cancelled", "aborted"} -> "canceled"
      [] k = "skipped" -> "skipped"

\* str.strip().lower() on the status strings of the model.
StripLower(x) ==
    CASE x = " SUCCEEDED " -> "succeeded"
      [] x = "Running" -> "running"
      [] x = " Paused" -> "paused"
      [] x = "CANCELLED" -> "cancelled"
      [] OTHER -> x

\* The f-string "Unknown source status <raw_status> normalized to failed" per raw
\* status; the back quotes of the source strings are written as apostrophes.
UnknownStatusReason(x) ==
    CASE x = "paused" -> "Unknown source status 'paused' normalized to 'failed'"
      [] x = " Paused" -> "Unknown source status ' Paused' normalized to 'failed'"
      [] x = "" -> "Unknown source status '' normalized to 'failed'"
      [] x = "7" -> "Unknown source status '7' normalized to 'failed'"
      [] OTHER -> "Unknown source status '<other>' normalized to 'failed'"

\* Mutant: the generated reason quotes the stripped, lower-cased status.
normalize_partner_status_NormalizedInReason(raw_status) ==
    IF raw_status.t = "null"
    THEN [status |-> "failed",
          reason |-> JStr("Missing source status; defaulted to 'failed'")]
    ELSE LET normalized == StripLower(PyStr(raw_status))
         IN IF normalized \in STATUS_KEYS
            THEN [status |-> STATUS_MAP(normalized), reason |-> None]
            ELSE [status |-> "failed",
                  reason |-> JStr(UnknownStatusReason(normalized))]

normalize_partner_status(raw_status) ==
    IF raw_status.t = "null"
    THEN [status |-> "failed",
          reason |-> JStr("Missing source status; defaulted to 'failed'")]
    ELSE LET normalized == StripLower(PyStr(raw_status))
         IN IF normalized \in STATUS_KEYS
            THEN [status |-> STATUS_MAP(normalized), reason |-> None]
            ELSE [status |-> "failed",
                  reason |-> JStr(UnknownStatusReason(PyStr(raw_status)))]

\* Result of a step that may raise: [ok |-> TRUE, v |-> value] or
\* [ok |-> FALSE, err |-> kind of the raised error].
Ok(v) == [ok |-> TRUE, v |-> v]
Raise(kind) == [ok |-> FALSE, err |-> kind]

\* Mutant: the check for a missing identity is left out.
extract_external_run_id_NoCheck(raw_event) ==
    LET first == Get(raw_event, "external_run_id")
        candidate == IF IsNoneOrEmpty(first) THEN Get(raw_event, "id") ELSE first
    IN Ok(PyStr(candidate))

extract_external_run_id(raw_event) ==
    LET first == Get(raw_event, "external_run_id")
        candidate == IF IsNoneOrEmpty(first) THEN Get(raw_event, "id") ELSE first
    IN IF IsNoneOrEmpty(candidate) THEN Raise("mapping") ELSE Ok(PyStr(candidate))

\* datetime.fromisoformat on the (stripped, Z-replaced) timestamp strings of
\* the model: local wall-clock minutes and the UTC offset in minutes, or a
\* naive value, or a ValueError.
FromIsoFormat(x) ==
    CASE x = "11:00+00:00" -> [ok |-> TRUE, local |-> 660, naive |-> FALSE, off |-> 0]
      [] x = "11:05+00:00" -> [ok |-> TRUE, local |-> 665, naive |-> FALSE, off |-> 0]
      [] x = "13:05+02:00" -> [ok |-> TRUE, local |-> 785, naive |-> FALSE, off |-> 120]
      [] x = "11:00" -> [ok |-> TRUE, local |-> 660, naive |-> TRUE, off |-> 0]
      [] OTHER -> [ok |-> FALSE, local |-> 0, naive |-> TRUE, off |-> 0]

\* value.strip() followed by the replacement of a trailing "Z" by "+00:00".
StripZ(x) ==
    CASE x = "11:00Z" -> "11:00+00:00"
      [] x = "11:05Z" -> "11:05+00:00"
      [] x = " 11:00Z " -> "11:00+00:00"
      [] OTHER -> x

parse_utc_timestamp(value) ==
    IF IsNoneOrEmpty(value) THEN Ok(None)
    ELSE IF value.t # "str" THEN Raise("mapping")
    ELSE LET parsed == FromIsoFormat(StripZ(value.s))
         IN IF ~parsed.ok THEN Raise("mapping")
            ELSE IF parsed.naive THEN Ok(JInt(parsed.local))
            ELSE Ok(JInt(parsed.local - parsed.off))

\* int(value) on the values of the model.
PyInt(v) ==
    CASE v.t = "int" -> Ok(v.i)
      [] v.t = "str" /\ v.s = "300" -> Ok(300)
      [] v.t = "str" /\ v.s = "120" -> Ok(120)
      [] OTHER -> Raise("mapping")

as_optional_int(value) ==
    IF IsNoneOrEmpty(value) THEN Ok(None)
    ELSE LET r == PyInt(value) IN IF r.ok THEN Ok(JInt(r.v)) ELSE r

as_optional_string(value) ==
    IF IsNoneOrEmpty(value) THEN None ELSE JStr(PyStr(value))

\* The first error in evaluation order, or the mapped fields.
map_partner_run_event(raw_event) ==
    LET external_run_id == extract_external_run_id(raw_event)
        norm == normalize_partner_status(Get(raw_event, "status"))
        started_at == parse_utc_timestamp(Get(raw_event, "started_at"))
        finished_at == parse_utc_timestamp(Get(raw_event, "finished_at"))
        explicit == as_optional_string(Get(raw_event, "status_reason"))
        status_reason == IF explicit.t = "null" /\ norm.reason.t # "null"
                         THEN norm.reason ELSE explicit
        duration_seconds == as_optional_int(Get(raw_event, "duration_seconds"))
        rows_processed == as_optional_int(Get(raw_event, "rows_processed"))
    IN IF ~external_run_id.ok THEN external_run_id
       ELSE IF ~started_at.ok THEN started_at
       ELSE IF ~finished_at.ok THEN finished_at
       ELSE IF ~duration_seconds.ok THEN duration_seconds
       ELSE IF ~rows_processed.ok THEN rows_processed
       ELSE Ok([external_run_id |-> external_run_id.v,
                status |-> norm.status,
                started_at |-> started_at.v,
                finished_at |-> finished_at.v,
                duration_seconds |-> duration_seconds.v,
                rows_processed |-> rows_processed.v,
                error_message |-> as_optional_string(Get(raw_event, "error_message")),
                status_reason |-> status_reason,
                payload |-> raw_event])

\* ---------------------------------------------------------------- run store
\* Mutant: only the constraint on duration_seconds is there.
CheckConstraints_DurationOnly(m) ==
    m.duration_seconds.t = "null" \/ m.duration_seconds.i >= 0

\* Run.__table_args__: the two CHECK constraints of table runs.
CheckConstraints(m) ==
    /\ m.duration_seconds.t = "null" \/ m.duration_seconds.i >= 0
    /\ m.rows_processed.t = "null" \/ m.rows_processed.i >= 0

\* Mutant: the unique constraint is on external_run_id alone.
Conflicts_ByRunIdOnly(rows, pipeline_id, external_run_id) ==
    {r \in rows : r.external_run_id = external_run_id}

\* Rows that conflict with an insert of (pipeline_id, external_run_id) under
\* the unique constraint uq_runs_pipeline_id_external_run_id.
Conflicts(rows, pipeline_id, external_run_id) ==
    {r \in rows : r.pipeline_id = pipeline_id /\ r.external_run_id = external_run_id}

\* Run.id default (uuid4): a value no row of the table carries.
FreshId(rows) ==
    CHOOSE n \in 1..(Cardinality(rows) + 1) : \A r \in rows : r.id # n

\* insert(Run).values(...): created_at takes the server default now().
InsertedRow(rows, pipeline_id, m, now) ==
    [id |-> FreshId(rows),
     pipeline_id |-> pipeline_id,
     external_run_id |-> m.external_run_id,
     status |-> m.status,
     started_at |-> m.started_at,
     finished_at |-> m.finished_at,
     duration_seconds |-> m.duration_seconds,
     rows_processed |-> m.rows_processed,
     error_message |-> m.error_message,
     status_reason |-> m.status_reason,
     payload |-> m.payload,
     ingested_at |-> now,
     created_at |-> now,
     updated_at |-> now]

\* Mutant: the conflicting row is left as it is (ON CONFLICT DO NOTHING).
UpdatedRow_DoNothing(old, m, now) == old

\* Mutant: a re-sighting adds its duration to the stored one.
UpdatedRow_Accumulate(old, m, now) ==
    [old EXCEPT !.status = m.status,
                !.started_at = m.started_at,
                !.finished_at = m.finished_at,
                !.duration_seconds =
                    IF old.duration_seconds.t = "int" /\ m.duration_seconds.t = "int"
                    THEN JInt(old.duration_seconds.i + m.duration_seconds.i)
                    ELSE m.duration_seconds,
                !.rows_processed = m.rows_processed,
                !.error_message = m.error_message,
                !.status_reason = m.status_reason,
                !.payload = m.payload,
                !.ingested_at = now,
                !.updated_at = now]

\* Mutant: a re-sighting with the stored values leaves the row as it is.
UpdatedRow_SkipIdentical(old, m, now) ==
    IF /\ old.status = m.status
       /\ old.started_at = m.started_at
       /\ old.finished_at = m.finished_at
       /\ old.duration_seconds = m.duration_seconds
       /\ old.rows_processed = m.rows_processed
       /\ old.error_message = m.error_message
       /\ old.status_reason = m.status_reason
       /\ old.payload = m.payload
    THEN old
    ELSE [old EXCEPT !.status = m.status,
                     !.started_at = m.started_at,
                     !.finished_at = m.finished_at,
                     !.duration_seconds = m.duration_seconds,
                     !.rows_processed = m.rows_processed,
                     !.error_message = m.error_message,
                     !.status_reason = m.status_reason,
                     !.payload = m.payload,
                     !.ingested_at = now,
                     !.updated_at = now]

\* Mutant: the row is written anew, creation time included.
UpdatedRow_Recreated(old, m, now) ==
    [old EXCEPT !.status = m.status,
                !.started_at = m.started_at,
                !.finished_at = m.finished_at,
                !.duration_seconds = m.duration_seconds,
                !.rows_processed = m.rows_processed,
                !.error_message = m.error_message,
                !.status_reason = m.status_reason,
                !.payload = m.payload,
                !.ingested_at = now,
                !.created_at = now,
                !.updated_at = now]

\* Mutant: a null of the later event keeps the stored value (COALESCE).
UpdatedRow_KeepsNonNull(old, m, now) ==
    LET Merge(new, stored) == IF new.t = "null" THEN stored ELSE new
    IN [old EXCEPT !.status = m.status,
                   !.started_at = Merge(m.started_at, old.started_at),
                   !.finished_at = Merge(m.finished_at, old.finished_at),
                   !.duration_seconds = Merge(m.duration_seconds, old.duration_seconds),
                   !.rows_processed = Merge(m.rows_processed, old.rows_processed),
                   !.error_message = Merge(m.error_message, old.error_message),
                   !.status_reason = Merge(m.status_reason, old.status_reason),
                   !.payload = m.payload,
                   !.ingested_at = now,
                   !.updated_at = now]

\* Mutant: the conflict branch sets the status and the time stamps only.
UpdatedRow_StatusOnly(old, m, now) ==
    [old EXCEPT !.status = m.status,
                !.ingested_at = now,
                !.updated_at = now]

\* on_conflict_do_update(set_={...}) applied to the existing row.
UpdatedRow(old, m, now) ==
    [old EXCEPT !.status = m.status,
                !.started_at = m.started_at,
                !.finished_at = m.finished_at,
                !.duration_seconds = m.duration_seconds,
                !.rows_processed = m.rows_processed,
                !.error_message = m.error_message,
                !.status_reason = m.status_reason,
                !.payload = m.payload,
                !.ingested_at = now,
                !.updated_at = now]

\* Mutant: a plain INSERT into a table without the unique constraint.
upsert_run_AlwaysInsert(rows, pipeline_id, m, now) ==
    IF ~CheckConstraints(m) THEN Raise("store")
    ELSE Ok(rows \cup {InsertedRow(rows, pipeline_id, m, now)})

\* upsert_run: the table after the statement, or the store error it raises.
upsert_run(rows, pipeline_id, m, now) ==
    LET hit == Conflicts(rows, pipeline_id, m.external_run_id)
    IN IF ~CheckConstraints(m) THEN Raise("store")
       ELSE IF hit = {} THEN Ok(rows \cup {InsertedRow(rows, pipeline_id, m, now)})
       ELSE Ok((rows \ hit) \cup {UpdatedRow(old, m, now) : old \in hit})

\* ---------------------------------------------------------------- pipelines
\* The pipelines table (read-only to ingestion).
Pipelines ==
    {[id |-> "p1", external_id |-> JStr("ext-1"), pipeline_type |-> "ingestion",
      is_active |-> TRUE, created_at |-> 2],
     [id |-> "p2", external_id |-> JStr("ext-2"), pipeline_type |-> "ingestion",
      is_active |-> TRUE, created_at |-> 5],
     [id |-> "p3", external_id |-> JStr("ext-3"), pipeline_type |-> "transform",
      is_active |-> TRUE, created_at |-> 1],
     [id |-> "p4", external_id |-> JStr("ext-4"), pipeline_type |-> "ingestion",
      is_active |-> FALSE, created_at |-> 3],
     [id |-> "p5", external_id |-> None, pipeline_type |-> "ingestion",
      is_active |-> TRUE, created_at |-> 4],
     [id |-> "p6", external_id |-> JStr(""), pipeline_type |-> "ingestion",
      is_active |-> TRUE, created_at |-> 6]}

\* Mutant: ORDER BY created_at DESC
RECURSIVE OrderByCreatedAt_Desc(_)
OrderByCreatedAt_Desc(S) ==
    IF S = {} THEN <<>>
    ELSE LET first == CHOOSE p \in S : \A q \in S : p.created_at >= q.created_at
         IN <<first>> \o OrderByCreatedAt_Desc(S \ {first})

\* ORDER BY created_at ASC
RECURSIVE OrderByCreatedAt(_)
OrderByCreatedAt(S) ==
    IF S = {} THEN <<>>
    ELSE LET first == CHOOSE p \in S : \A q \in S : p.created_at <= q.created_at
         IN <<first>> \o OrderByCreatedAt(S \ {first})

list_ingestion_pipelines_with_external_id ==
    OrderByCreatedAt({p \in Pipelines :
        /\ p.external_id.t # "null"
        /\ p.pipeline_type = "ingestion"
        /\ p.is_active})

\* The test 'not pipeline.external_id'.
Falsy(v) == v.t = "null" \/ (v.t = "str" /\ v.s = "")

\* ------------------------------------------------------------ partner data
\* A raw partner run event: a dict with the fields the mapper reads.
Event(external_run_id, id, status, started_at, finished_at, duration_seconds) ==
    [external_run_id |-> external_run_id, id |-> id, status |-> status,
     started_at |-> started_at, finished_at |-> finished_at,
     duration_seconds |-> duration_seconds, rows_processed |-> None,
     error_message |-> None, status_reason |-> Absent]

EvRunning == Event(JStr("run-1"), JStr("run-1"), JStr("running"), JStr("11:00Z"), None,
                   JStr(""))
EvSuccess == Event(JStr("run-1"), JStr("run-1"), JStr("success"), JStr("11:00Z"),
                   JStr("11:05Z"), JInt(300))
EvIdOnly == Event(Absent, JStr("run-2"), JStr(" SUCCEEDED "), JStr("11:00"),
                  JStr("13:05+02:00"), JStr("300"))
EvUnknown == Event(JStr("run-3"), JInt(7), JStr("paused"), JStr(""), None, JStr(""))
EvNoIdentity == Event(JStr(""), Absent, JStr("success"), JStr("11:00Z"), None, None)
EvOther == Event(JStr("run-1"), Absent, None, JStr(" 11:00Z "), None, JInt(120))
EvNegative == Event(JStr("run-4"), Absent, JStr("failed"), None, None, JInt(-5))

\* Events that carry a status_reason of their own, or lack the status key.
EvPausedExplained ==
    [Event(JStr("run-5"), Absent, JStr("paused"), None, None, None)
        EXCEPT !.status_reason = JStr("vendor hold")]
EvNoStatusKey ==
    [Event(JStr(""), JStr("run-6"), Absent, None, None, None)
        EXCEPT !.status_reason = JStr("")]
EvNullExplained ==
    [Event(None, JInt(7), None, None, None, None)
        EXCEPT !.status_reason = JStr("vendor hold")]
EvIntStatus ==
    [Event(JStr("run-8"), JStr("run-0"), JInt(7), None, None, None)
        EXCEPT !.status_reason = None]
EvEmptyStatus == Event(JStr("run-9"), Absent, JStr(""), None, None, None)
EvPaddedStatus == Event(JStr("run-10"), Absent, JStr(" Paused"), None, None, None)

\* Counts at and below the lower end of their range.
EvZero ==
    [Event(JStr("run-11"), Absent, JStr("success"), None, None, JInt(0))
        EXCEPT !.rows_processed = JInt(0)]
EvNegativeRows ==
    [Event(JStr("run-12"), Absent, JStr("success"), None, None, JInt(120))
        EXCEPT !.rows_processed = JInt(-5)]

\* Raw status strings: every key of _STATUS_MAP, and keys in other letter
\* case and with surrounding whitespace.
RawStatuses ==
    <<"running", "in_progress", "queued", "pending", "success", "succeeded",
      "completed", "failed", "failure", "error", "errored", "canceled",
      "cancelled", "aborted", "skipped", "Running", "CANCELLED", " SUCCEEDED ">>

\* An event with the given raw status; the run id is the status string.
EvStatus(x) == Event(JStr(x), Absent, JStr(x), None, None, None)

\* A raw response body: a JSON object with (possibly missing) keys runs and
\* next_cursor.
Body(runs, next_cursor) == [t |-> "dict", runs |-> runs, next_cursor |-> next_cursor]

\* Query parameter of a request that carries no cursor.
NoCursor == "<none>"

\* The pages a partner serves for one pipeline, by name of the page chain:
\* the 200 body for each cursor parameter.  Cursors the chain does not know
\* get an empty last page.
ChainBody(chain, param) ==
    CASE chain = "A" /\ param = NoCursor -> Body(JList(<<EvRunning>>), None)
      [] chain = "B" /\ param = NoCursor -> Body(JList(<<EvSuccess>>), JStr(""))
      [] chain = "C" /\ param = NoCursor -> Body(JList(<<EvRunning>>), JStr("cursor-2"))
      [] chain = "C" /\ param = "cursor-2" -> Body(JList(<<EvIdOnly>>), JStr("cursor-3"))
      [] chain = "C" /\ param = "cursor-3" -> Body(JList(<<EvUnknown, EvSuccess>>), Absent)
      [] chain = "D" /\ param = NoCursor ->
            Body(JList(<<EvIdOnly, EvNoIdentity, EvRunning>>), None)
      [] chain = "E" /\ param = NoCursor -> Body(JList(<<EvRunning>>), JStr("cursor-2"))
      [] chain = "E" /\ param = "cursor-2" -> Body(JStr("not-a-list"), None)
      [] chain = "G" /\ param = NoCursor -> Body(JList(<<EvOther>>), JInt(7))
      [] chain = "G" /\ param = "7" -> Body(Absent, None)
      [] chain = "H" /\ param = NoCursor -> Body(JList(<<EvSuccess, EvNegative>>), None)
      [] chain = "I" /\ param = NoCursor ->
            Body(JList(<<EvPausedExplained, EvNoStatusKey, EvNullExplained>>),
                 JStr("cursor-2"))
      [] chain = "I" /\ param = "cursor-2" ->
            Body(JList(<<EvIntStatus, EvEmptyStatus, EvPaddedStatus>>), None)
      [] chain = "Z" /\ param = NoCursor -> Body(JList(<<>>), None)
      [] chain = "R" /\ param = NoCursor -> Body(JList(<<EvIdOnly, EvRunning>>), None)
      [] chain = "V" /\ param = NoCursor ->
            Body(JList([k \in 1..9 |-> EvStatus(RawStatuses[k])]), JStr("cursor-2"))
      [] chain = "V" /\ param = "cursor-2" ->
            Body(JList([k \in 1..9 |-> EvStatus(RawStatuses[9 + k])]), None)
      [] chain = "N" /\ param = NoCursor -> Body(JList(<<EvZero, EvNegativeRows>>), None)
      [] chain = "W" /\ param = NoCursor ->
            Body(JList(<<EvRunning, EvIdOnly, EvSuccess>>), JStr("cursor-2"))
      [] chain = "W" /\ param = "cursor-2" -> Body(JList(<<EvIdOnly, EvOther>>), None)
      [] chain = "L" /\ param = NoCursor -> Body(JList(<<EvRunning>>), JStr("cursor-2"))
      [] chain = "L" /\ param = "cursor-2" -> Body(JList(<<EvSuccess>>), JStr("cursor-2"))
      [] OTHER -> Body(JList(<<>>), None)

\* What the partner may serve: a chain for each external pipeline id.
Scenarios ==
    {[e \in {"ext-1", "ext-2"} |-> IF e = "ext-1" THEN a ELSE b] :
        a \in {"A", "B", "C", "D"}, b \in {"E", "G", "H"}}
    \cup {[e \in {"ext-1", "ext-2"} |-> IF e = "ext-1" THEN "I" ELSE "Z"]}

\* ----------------------------------------------------------- partner client
\* Mutant: 404 is taken for a transient status.
RETRYABLE_STATUS_CODES_With404 == {404, 429, 500, 502, 503, 504}

RETRYABLE_STATUS_CODES == {429, 500, 502, 503, 504}

\* float(retry_after) on the header values of the model, in milliseconds.
PyFloatMs(v) ==
    CASE v.t = "str" /\ v.s = "2" -> Ok(2000)
      [] v.t = "str" /\ v.s = "0.5" -> Ok(500)
      [] v.t = "int" -> Ok(v.i * 1000)
      [] OTHER -> Raise("value")

RECURSIVE Pow2(_)
Pow2(n) == IF n = 0 THEN 1 ELSE 2 * Pow2(n - 1)

Max(a, b) == IF b > a THEN b ELSE a

\* Mutant: the backoff does not grow with the attempt.
retry_delay_ConstantBackoff(attempt, headers, jitter) ==
    LET base == BackoffMs
        delay == base + (jitter * BackoffMs) \div 1000
    IN IF headers.t = "null" \/ headers.retry_after.t = "absent" THEN delay
       ELSE LET retry_after == headers.retry_after
            IN IF retry_after.t = "null" THEN delay
               ELSE LET f == PyFloatMs(retry_after)
                    IN IF f.ok THEN Max(delay, f.v) ELSE delay

\* Mutant: a parseable Retry-After replaces the computed backoff.
retry_delay_HeaderWins(attempt, headers, jitter) ==
    LET base == BackoffMs * Pow2(attempt)
        delay == base + (jitter * BackoffMs) \div 1000
    IN IF headers.t = "null" \/ headers.retry_after.t = "absent" THEN delay
       ELSE LET f == PyFloatMs(headers.retry_after)
            IN IF f.ok THEN f.v ELSE delay

\* _retry_delay(attempt, headers) with jitter_fn() = jitter / 1000.  headers is
\* None (not passed) or the response headers, of which Retry-After is modelled.
retry_delay(attempt, headers, jitter) ==
    LET base == BackoffMs * Pow2(attempt)
        delay == base + (jitter * BackoffMs) \div 1000
    IN IF headers.t = "null" \/ headers.retry_after.t = "absent" THEN delay
       ELSE LET retry_after == headers.retry_after
            IN IF retry_after.t = "null" THEN delay
               ELSE LET f == PyFloatMs(retry_after)
                    IN IF f.ok THEN Max(delay, f.v) ELSE delay

\* Mutant: the runs field is passed on without the list check.
normalize_page_NoListCheck(raw) ==
    IF raw.t # "dict" THEN Raise("response")
    ELSE LET runs == IF raw.runs.t \in {"absent", "null"} THEN JList(<<>>) ELSE raw.runs
             next_cursor == Get(raw, "next_cursor")
         IN Ok([runs |-> runs,
                next_cursor |-> IF next_cursor.t = "null" THEN None
                                ELSE JStr(PyStr(next_cursor))])

\* _normalize_page(raw)
normalize_page(raw) ==
    IF raw.t # "dict" THEN Raise("response")
    ELSE LET runs == IF raw.runs.t \in {"absent", "null"} THEN JList(<<>>) ELSE raw.runs
             next_cursor == Get(raw, "next_cursor")
         IN IF runs.t # "list" THEN Raise("response")
            ELSE Ok([runs |-> runs,
                     next_cursor |-> IF next_cursor.t = "null" THEN None
                                     ELSE JStr(PyStr(next_cursor))])

\* params = {"cursor": cursor} if cursor else None
CursorParam(cursor) == IF Falsy(cursor) THEN NoCursor ELSE cursor.s

\* -------------------------------------------------------------------- state
VARIABLES
    committed,     \* table runs as committed in the database
    session,       \* table runs as seen inside the trigger's transaction
    partner,       \* the page chain the partner serves per external pipeline id
    max_retries,   \* settings.http_max_retries, given to the client
    now,           \* the clock: the number of passes started so far
    pc,            \* position of the trigger handler
    pipelines,     \* ingest_external_runs: the listed pipelines
    pidx,          \* ingest_external_runs: pipelines taken from the list so far
    totals,        \* ingest_external_runs: the three counters
    cursor,        \* _ingest_pipeline: cursor
    counts,        \* _ingest_pipeline: pages_processed, runs_processed
    page,          \* _ingest_pipeline: the page being processed
    eidx,          \* _ingest_pipeline: events of the page handled so far
    attempt,       \* _request_page: loop variable attempt
    response,      \* _request_page: outcome of the last HTTP attempt
    jitter,        \* the last value of jitter_fn(), in thousandths
    http,          \* per fetch_runs call: GETs sent, sleeps made, last delay
    err,           \* the error that ended the pass, if any
    result,        \* the counters returned by the last completed pass
    ops,           \* the fetch_runs calls and upserts of the pass, in order
    before,        \* history: committed when the pass started
    passPartner,   \* history: partner when the pass started
    last,          \* history: how the previous pass ended
    reqs           \* concurrent trigger requests: the state of each handler

vars == <<committed, session, partner, max_retries, now, pc, pipelines, pidx,
          totals, cursor, counts, page, eidx, attempt, response, jitter, http,
          err, result, ops, before, passPartner, last, reqs>>

storeVars == <<committed, session>>
envVars == <<partner, max_retries>>
jobVars == <<pipelines, pidx, totals>>
pipeVars == <<cursor, counts, page, eidx>>
clientVars == <<attempt, response, jitter, http>>
histVars == <<before, passPartner, last>>

ZeroTotals == [pipelines_processed |-> 0, pages_processed |-> 0, runs_processed |-> 0]
ZeroCounts == [pages_processed |-> 0, runs_processed |-> 0]
NoPage == [runs |-> JList(<<>>), next_cursor |-> None]
NoResponse == [kind |-> "none"]
NoHttp == [gets |-> 0, sleeps |-> 0, delay |-> 0]

\* The requests to the trigger that may be handled at the same time (the
\* endpoint is a plain def, run in the server's thread pool).
Requests == {1, 2}

\* A handler that has not been called: its locals, the rows its transaction
\* has written and not yet committed, and whether it ran beside the other.
IdleReq ==
    [pc |-> "idle", pipelines |-> <<>>, pidx |-> 0, cursor |-> None, page |-> NoPage,
     eidx |-> 0, writes |-> {}, err |-> "none", overlapped |-> FALSE]

\* The mutable fields of the rows, by key, without the bookkeeping columns.
View(rows) ==
    {[pipeline_id |-> r.pipeline_id, external_run_id |-> r.external_run_id,
      status |-> r.status, started_at |-> r.started_at,
      finished_at |-> r.finished_at, duration_seconds |-> r.duration_seconds,
      rows_processed |-> r.rows_processed, error_message |-> r.error_message,
      status_reason |-> r.status_reason, payload |-> r.payload] : r \in rows}

\* The runs table before the first sync: a run of pipeline p4, ingested
\* while that pipeline was active.
InitialRuns == {InsertedRow({}, "p4", map_partner_run_event(EvRunning).v, 0)}

Init ==
    /\ committed = InitialRuns
    /\ session = InitialRuns
    /\ partner \in Scenarios
    /\ max_retries \in 0..MaxRetriesCfg
    /\ now = 0
    /\ pc = "idle"
    /\ pipelines = <<>>
    /\ pidx = 0
    /\ totals = ZeroTotals
    /\ cursor = None
    /\ counts = ZeroCounts
    /\ page = NoPage
    /\ eidx = 0
    /\ attempt = 0
    /\ response = NoResponse
    /\ jitter = 0
    /\ http = NoHttp
    /\ err = "none"
    /\ result = ZeroTotals
    /\ ops = <<>>
    /\ before = InitialRuns
    /\ passPartner = partner
    /\ last = [ok |-> FALSE]
    /\ reqs = [i \in Requests |-> IdleReq]

Idle == pc \in {"idle", "done", "failed"}

\* 'n += 1' on a counter, and the record of a further step of the pass.
Counted(n) == IF n < MaxCount THEN n + 1 ELSE n
Logged(seq, step) == IF Len(seq) < MaxOps THEN Append(seq, step) ELSE seq

\* The partner's data changes between passes.
PartnerUpdate ==
    /\ Idle
    /\ partner' \in Scenarios \ {partner}
    /\ UNCHANGED <<reqs, committed, session, max_retries, now, pc, jobVars, pipeVars,
                   clientVars, err, result, ops, histVars>>

\* trigger_ingestion_sync up to the call of ingest_external_runs, and the
\* listing of the pipelines there.
Trigger ==
    /\ Idle
    /\ now < MaxPasses
    /\ now' = now + 1
    /\ session' = committed
    /\ pipelines' = list_ingestion_pipelines_with_external_id
    /\ pidx' = 0
    /\ totals' = ZeroTotals
    /\ cursor' = None
    /\ counts' = ZeroCounts
    /\ page' = NoPage
    /\ eidx' = 0
    /\ attempt' = 0
    /\ response' = NoResponse
    /\ jitter' = 0
    /\ http' = NoHttp
    /\ err' = "none"
    /\ ops' = <<>>
    /\ before' = committed
    /\ passPartner' = partner
    /\ last' = IF pc = "done"
               THEN [ok |-> TRUE, partner |-> passPartner, view |-> View(committed),
                     count |-> Cardinality(committed)]
               ELSE [ok |-> FALSE]
    /\ pc' = "loop"
    /\ UNCHANGED <<reqs, committed, envVars, result>>

\* ingest_external_runs: the head of 'for pipeline in pipelines', with the
\* 'continue' for a pipeline without external id and the return after the
\* last pipeline.
NextPipeline ==
    /\ pc = "loop"
    /\ IF pidx = Len(pipelines)
       THEN /\ pc' = "commit"
            /\ UNCHANGED <<pidx, pipeVars>>
       ELSE /\ pidx' = pidx + 1
            /\ IF Falsy(pipelines[pidx + 1].external_id)
               THEN pc' = "loop" /\ UNCHANGED pipeVars
               ELSE /\ pc' = "call"
                    /\ cursor' = None
                    /\ counts' = ZeroCounts
                    /\ page' = NoPage
                    /\ eidx' = 0
    /\ UNCHANGED <<reqs, storeVars, envVars, now, pipelines, totals, clientVars, err,
                   result, ops, histVars>>

Pipeline == pipelines[pidx]

\* _fetch_partner_page -> fetch_runs -> _request_page up to the retry loop.
CallFetch ==
    /\ pc = "call"
    /\ attempt' = 0
    /\ response' = NoResponse
    /\ jitter' = 0
    /\ http' = NoHttp
    /\ ops' = Logged(ops, [op |-> "fetch", ext |-> Pipeline.external_id.s,
                           cursor |-> cursor])
    /\ pc' = "attempt"
    /\ UNCHANGED <<reqs, storeVars, envVars, now, jobVars, pipeVars, err, result, histVars>>

\* ---------------------------------------------------- _request_page attempts
\* Values jitter_fn() may return, in thousandths (random.random() < 1).
Jitters == {0, 500}

\* Response headers the partner sends with a retryable status.
RetryAfterValues == {Absent, JStr("2"), JStr("soon")}
Headers(retry_after) == [t |-> "dict", retry_after |-> retry_after]

\* Responses the partner answers with, besides 200.
Answers ==
    {[kind |-> "status", code |-> 429, headers |-> Headers(h)] : h \in RetryAfterValues}
    \cup {[kind |-> "status", code |-> c, headers |-> Headers(Absent)] :
              c \in {503, 404, 501}}

\* Mutant: the budget test is off by one.
BudgetExhausted_OffByOne == attempt > max_retries

\* The test 'attempt >= self._max_retries'.
BudgetExhausted == attempt >= max_retries

\* Mutant: the error is noted and the pass goes on with the next pipeline.
Fail_NextPipeline(kind) ==
    /\ err' = kind
    /\ pc' = "loop"

\* The pass ends with an error of the given kind: it propagates to the
\* 'except Exception' of trigger_ingestion_sync.
Fail(kind) ==
    /\ err' = kind
    /\ pc' = "raise"

\* Mutant: the retry follows at once, without a sleep.
RetryOrRaise_NoSleep(headers) ==
    IF BudgetExhausted
    THEN /\ err' = "request"
         /\ pc' = "raise"
         /\ http' = [http EXCEPT !.gets = @ + 1]
         /\ UNCHANGED <<attempt, jitter>>
    ELSE /\ http' = [http EXCEPT !.gets = @ + 1]
         /\ attempt' = attempt + 1
         /\ pc' = "attempt"
         /\ UNCHANGED <<err, jitter>>

\* A GET failed retryably: raise when the budget is used up, else sleep for
\* the retry delay and 'continue'; a loop that runs out of attempts falls
\* through to the final raise.
RetryOrRaise(headers) ==
    IF BudgetExhausted
    THEN /\ Fail("request")
         /\ http' = [http EXCEPT !.gets = @ + 1]
         /\ UNCHANGED <<attempt, jitter>>
    ELSE \E j \in Jitters :
         /\ jitter' = j
         /\ http' = [gets |-> http.gets + 1, sleeps |-> http.sleeps + 1,
                     delay |-> retry_delay(attempt, headers, j)]
         /\ attempt' = attempt + 1
         /\ IF attempt + 1 > max_retries
            THEN Fail("request")
            ELSE pc' = "attempt" /\ UNCHANGED err

\* Mutant: a retry uses up the budget of the client, not of the call.
AttemptTransportError_SharedBudget ==
    /\ pc = "attempt"
    /\ response' = [kind |-> "transport"]
    /\ RetryOrRaise(None)
    /\ max_retries' = IF BudgetExhausted THEN max_retries ELSE max_retries - 1
    /\ UNCHANGED <<reqs, storeVars, partner, now, jobVars, pipeVars, result, ops, histVars>>

\* session.get raises requests.Timeout or requests.ConnectionError.
AttemptTransportError ==
    /\ pc = "attempt"
    /\ response' = [kind |-> "transport"]
    /\ RetryOrRaise(None)
    /\ UNCHANGED <<reqs, storeVars, envVars, now, jobVars, pipeVars, result, ops, histVars>>

\* session.get raises another requests.RequestException.
AttemptRequestException ==
    /\ pc = "attempt"
    /\ response' = [kind |-> "exception"]
    /\ http' = [http EXCEPT !.gets = @ + 1]
    /\ Fail("request")
    /\ UNCHANGED <<reqs, storeVars, envVars, now, jobVars, pipeVars, attempt, jitter,
                   result, ops, histVars>>

\* The response status is in RETRYABLE_STATUS_CODES.
AttemptRetryableStatus ==
    /\ pc = "attempt"
    /\ \E r \in Answers :
        /\ r.code \in RETRYABLE_STATUS_CODES
        /\ response' = r
        /\ RetryOrRaise(r.headers)
    /\ UNCHANGED <<reqs, storeVars, envVars, now, jobVars, pipeVars, result, ops, histVars>>

\* response.raise_for_status() raises requests.HTTPError.
AttemptHttpError ==
    /\ pc = "attempt"
    /\ \E r \in Answers :
        /\ r.code \notin RETRYABLE_STATUS_CODES
        /\ r.code >= 400
        /\ response' = r
    /\ http' = [http EXCEPT !.gets = @ + 1]
    /\ Fail("request")
    /\ UNCHANGED <<reqs, storeVars, envVars, now, jobVars, pipeVars, attempt, jitter,
                   result, ops, histVars>>

\* 'runs = page.get("runs") or []' and the isinstance check of _ingest_pipeline.
JobRuns(p) ==
    IF p.runs.t = "null" \/ (p.runs.t = "list" /\ p.runs.l = <<>>)
          \/ (p.runs.t = "str" /\ p.runs.s = "")
    THEN Ok(<<>>)
    ELSE IF p.runs.t # "list" THEN Raise("type") ELSE Ok(p.runs.l)

\* The body of the 200 response to the request for the current cursor.
ServedBody == ChainBody(partner[Pipeline.external_id.s], CursorParam(cursor))

\* A 200 response: response.json(), _normalize_page, and in _ingest_pipeline
\* the page counter and the check of runs.  A body that is not JSON makes
\* response.json() raise requests' JSONDecodeError, which nothing catches
\* before the trigger.
AttemptSuccess ==
    /\ pc = "attempt"
    /\ http' = [http EXCEPT !.gets = @ + 1]
    /\ \E is_json \in BOOLEAN :
        /\ response' = [kind |-> "status", code |-> 200, headers |-> Headers(Absent),
                        body |-> IF is_json THEN ServedBody ELSE [t |-> "notjson"]]
        /\ IF ~is_json
           THEN Fail("jsondecode") /\ UNCHANGED pipeVars
           ELSE LET normalized == normalize_page(ServedBody)
                IN IF ~normalized.ok
                   THEN Fail(normalized.err) /\ UNCHANGED pipeVars
                   ELSE LET runs == JobRuns(normalized.v)
                        IN /\ counts' = [counts EXCEPT !.pages_processed = Counted(@)]
                           /\ page' = normalized.v
                           /\ eidx' = 0
                           /\ UNCHANGED cursor
                           /\ IF runs.ok
                              THEN pc' = "events" /\ UNCHANGED err
                              ELSE Fail(runs.err)
    /\ UNCHANGED <<reqs, storeVars, envVars, now, jobVars, attempt, jitter, result, ops,
                   histVars>>

\* ------------------------------------------------------- _ingest_pipeline
\* The locals of _request_page are gone once fetch_runs has returned.
ClientReturned ==
    /\ attempt' = 0
    /\ response' = NoResponse
    /\ jitter' = 0
    /\ http' = NoHttp

\* Mutant: only None ends the pagination.
CursorExhausted_NoneOnly(next_cursor) == next_cursor.t = "null"

\* The test 'next_cursor in (None, "")'.
CursorExhausted(next_cursor) == IsNoneOrEmpty(next_cursor)

\* Mutant: a run is counted only when its upsert has inserted a row.
ProcessEvent_CountsNewKeys ==
    /\ pc = "events"
    /\ eidx < Len(page.runs.l)
    /\ LET mapped == map_partner_run_event(page.runs.l[eidx + 1])
       IN IF ~mapped.ok
          THEN Fail(mapped.err) /\ UNCHANGED <<session, eidx, counts, ops>>
          ELSE LET up == upsert_run(session, Pipeline.id, mapped.v, now)
               IN IF ~up.ok
                  THEN Fail(up.err) /\ UNCHANGED <<session, eidx, counts, ops>>
                  ELSE /\ session' = up.v
                       /\ eidx' = eidx + 1
                       /\ counts' = IF Cardinality(up.v) > Cardinality(session)
                                    THEN [counts EXCEPT !.runs_processed = Counted(@)]
                                    ELSE counts
                       /\ ops' = Logged(ops, [op |-> "upsert",
                                              pipeline_id |-> Pipeline.id,
                                              external_run_id |-> mapped.v.external_run_id])
                       /\ pc' = "events"
                       /\ UNCHANGED err
    /\ ClientReturned
    /\ UNCHANGED <<reqs, committed, envVars, now, jobVars, cursor, page, result, histVars>>

\* One turn of 'for raw_event in runs': map the event, upsert the mapped
\* fields with ingested_at = datetime.now(), count the run.
ProcessEvent ==
    /\ pc = "events"
    /\ eidx < Len(page.runs.l)
    /\ LET mapped == map_partner_run_event(page.runs.l[eidx + 1])
       IN IF ~mapped.ok
          THEN Fail(mapped.err) /\ UNCHANGED <<session, eidx, counts, ops>>
          ELSE LET up == upsert_run(session, Pipeline.id, mapped.v, now)
               IN IF ~up.ok
                  THEN Fail(up.err) /\ UNCHANGED <<session, eidx, counts, ops>>
                  ELSE /\ session' = up.v
                       /\ eidx' = eidx + 1
                       /\ counts' = [counts EXCEPT !.runs_processed = Counted(@)]
                       /\ ops' = Logged(ops, [op |-> "upsert",
                                              pipeline_id |-> Pipeline.id,
                                              external_run_id |-> mapped.v.external_run_id])
                       /\ pc' = "events"
                       /\ UNCHANGED err
    /\ ClientReturned
    /\ UNCHANGED <<reqs, committed, envVars, now, jobVars, cursor, page, result, histVars>>

\* Mutant: a pipeline is counted only when it yielded runs.
EndPage_CountsOnlyWithRuns ==
    /\ pc = "events"
    /\ eidx = Len(page.runs.l)
    /\ IF CursorExhausted(Get(page, "next_cursor"))
       THEN /\ totals' = [pipelines_processed |->
                              totals.pipelines_processed
                                  + (IF counts.runs_processed > 0 THEN 1 ELSE 0),
                          pages_processed |-> totals.pages_processed + counts.pages_processed,
                          runs_processed |-> totals.runs_processed + counts.runs_processed]
            /\ pc' = "loop"
            /\ UNCHANGED cursor
       ELSE /\ cursor' = JStr(PyStr(page.next_cursor))
            /\ pc' = "call"
            /\ UNCHANGED totals
    /\ ClientReturned
    /\ UNCHANGED <<reqs, storeVars, envVars, now, pipelines, pidx, counts, page, eidx,
                   err, result, ops, histVars>>

\* After the last event of the page: stop at an exhausted cursor and return
\* the counters to ingest_external_runs, which adds them up; otherwise go on
\* with the next cursor.
EndPage ==
    /\ pc = "events"
    /\ eidx = Len(page.runs.l)
    /\ IF CursorExhausted(Get(page, "next_cursor"))
       THEN /\ totals' = [pipelines_processed |-> totals.pipelines_processed + 1,
                          pages_processed |-> totals.pages_processed + counts.pages_processed,
                          runs_processed |-> totals.runs_processed + counts.runs_processed]
            /\ pc' = "loop"
            /\ UNCHANGED cursor
       ELSE /\ cursor' = JStr(PyStr(page.next_cursor))
            /\ pc' = "call"
            /\ UNCHANGED totals
    /\ ClientReturned
    /\ UNCHANGED <<reqs, storeVars, envVars, now, pipelines, pidx, counts, page, eidx,
                   err, result, ops, histVars>>

\* ------------------------------------------------- trigger_ingestion_sync
\* Mutant: the commit keeps only the rows the pass has sighted.
Commit_PrunesUnsighted ==
    /\ pc = "commit"
    /\ committed' = {r \in session : r.ingested_at = now}
    /\ result' = totals
    /\ pc' = "done"
    /\ UNCHANGED <<reqs, session, envVars, now, jobVars, pipeVars, clientVars, err, ops,
                   histVars>>

\* ingest_external_runs returned: session.commit() and the response.
Commit ==
    /\ pc = "commit"
    /\ committed' = session
    /\ result' = totals
    /\ pc' = "done"
    /\ UNCHANGED <<reqs, session, envVars, now, jobVars, pipeVars, clientVars, err, ops,
                   histVars>>

\* Mutant: the error path keeps what the pass has written so far.
Rollback_Commits ==
    /\ pc = "raise"
    /\ committed' = session
    /\ pc' = "failed"
    /\ ClientReturned
    /\ UNCHANGED <<reqs, session, envVars, now, jobVars, pipeVars, err, result, ops,
                   histVars>>

\* The branch 'except Exception: session.rollback(); raise'.
Rollback ==
    /\ pc = "raise"
    /\ session' = committed
    /\ pc' = "failed"
    /\ ClientReturned
    /\ UNCHANGED <<reqs, committed, envVars, now, jobVars, pipeVars, err, result, ops,
                   histVars>>

Next ==
    \/ PartnerUpdate
    \/ Trigger
    \/ NextPipeline
    \/ CallFetch
    \/ AttemptTransportError
    \/ AttemptRequestException
    \/ AttemptRetryableStatus
    \/ AttemptHttpError
    \/ AttemptSuccess
    \/ ProcessEvent
    \/ EndPage
    \/ Commit
    \/ Rollback

Spec == Init /\ [][Next]_vars

\* ------------------------------------------------- what the partner serves
\* The pages of a chain in the order the next_cursor values link them, from
\* the request without cursor to the page whose next_cursor is null or empty.
RECURSIVE Walk(_, _, _)
Walk(chain, param, n) ==
    IF n = 0 THEN <<>>
    ELSE LET body == ChainBody(chain, param)
             nc == Get(body, "next_cursor")
         IN <<[param |-> param, body |-> body]>>
            \o (IF IsNoneOrEmpty(nc) THEN <<>> ELSE Walk(chain, PyStr(nc), n - 1))

ChainPages(chain) == Walk(chain, NoCursor, MaxPages)

RECURSIVE Flatten(_)
Flatten(pages) ==
    IF pages = <<>> THEN <<>>
    ELSE (IF Head(pages).body.runs.t = "list" THEN Head(pages).body.runs.l ELSE <<>>)
         \o Flatten(Tail(pages))

\* All events of a chain, in page-then-list order.
ChainEvents(chain) == Flatten(ChainPages(chain))

\* The pipelines a pass fetches for, as indexes into the listed pipelines.
Fetched == {i \in 1..Len(pipelines) : ~Falsy(pipelines[i].external_id)}

\* The mutable fields a row of pipeline pid has after an upsert of m.
ExpectedView(pid, m) ==
    [pipeline_id |-> pid, external_run_id |-> m.external_run_id,
     status |-> m.status, started_at |-> m.started_at,
     finished_at |-> m.finished_at, duration_seconds |-> m.duration_seconds,
     rows_processed |-> m.rows_processed, error_message |-> m.error_message,
     status_reason |-> m.status_reason, payload |-> m.payload]

UniqueKeys(rows) ==
    \A r1, r2 \in rows :
        (r1.pipeline_id = r2.pipeline_id /\ r1.external_run_id = r2.external_run_id)
            => r1 = r2

\* ------------------------------------------------------------------ claims
\* C1: in every reachable state, the run table - as committed and as seen
\* inside the transaction of a pass - holds at most one row for each
\* (pipeline_id, external_run_id).
C1_AtMostOneRowPerKey == UniqueKeys(committed) /\ UniqueKeys(session)

\* C1 witness: a key that an earlier pass committed has been upserted again
\* by a later pass, next to another row.
C1_Witness ==
    /\ Cardinality(session) >= 2
    /\ \E r \in session : r.ingested_at > r.created_at

\* C2: a pass that completes right after a completed pass over the same
\* partner pages leaves the committed table as that pass left it: the same
\* keys with the same mapped field values, the same row count, no duplicates.
C2_IdempotentReplay ==
    (pc = "done" /\ last.ok /\ last.partner = passPartner)
        => /\ View(committed) = last.view
           /\ Cardinality(committed) = last.count
           /\ UniqueKeys(committed)

\* C2 witness: a replay of the same pages has completed over several rows.
C2_Witness ==
    /\ pc = "done"
    /\ last.ok
    /\ last.partner = passPartner
    /\ Cardinality(committed) >= 3

\* C3: after a completed pass, every key the pass sighted has exactly one
\* row, and the row carries the mapped values of the key's last sighting in
\* the pass, whatever was stored for the key before.
C3_LatestSightingWins ==
    pc = "done" =>
        \A i \in Fetched :
            LET pid == pipelines[i].id
                evs == ChainEvents(passPartner[pipelines[i].external_id.s])
            IN \A k \in 1..Len(evs) :
                LET m == map_partner_run_event(evs[k]).v
                    hit == Conflicts(committed, pid, m.external_run_id)
                IN (\A j \in (k + 1)..Len(evs) :
                        map_partner_run_event(evs[j]).v.external_run_id
                            # m.external_run_id)
                    => /\ Cardinality(hit) = 1
                       /\ View(hit) = {ExpectedView(pid, m)}

\* C3 witness: a completed pass changed the status of a row that was
\* committed before the pass.
C3_Witness ==
    /\ pc = "done"
    /\ \E b \in before : \E r \in committed :
        /\ r.pipeline_id = b.pipeline_id
        /\ r.external_run_id = b.external_run_id
        /\ b.status = "running"
        /\ r.status = "success"
        /\ r.finished_at # b.finished_at

\* C4: while a pass runs and after it has failed, the committed table is
\* the one the pass started from; after the failure the transaction's view
\* is that table again.  Writes become committed only by the commit that
\* ends a pass without error.
C4_AllOrNothing ==
    /\ pc \in {"loop", "call", "attempt", "events", "commit", "raise", "failed"}
          => committed = before
    /\ pc = "failed" => session = before

\* C4 witness: a pass has failed and been rolled back after it had
\* upserted a run into a table that already held committed rows.
C4_Witness ==
    /\ pc = "failed"
    /\ before # {}
    /\ \E k \in 1..Len(ops) : ops[k].op = "upsert"

\* The cursor parameters of the fetch_runs calls of the pass for one external
\* pipeline id, in call order.
FetchParams(ext) ==
    LET IsFetch(o) == o.op = "fetch" /\ o.ext = ext
        calls == SelectSeq(ops, IsFetch)
    IN [k \in 1..Len(calls) |-> CursorParam(calls[k].cursor)]

\* The run ids of the upserts of the pass for one pipeline, in order.
UpsertedIds(pid) ==
    LET IsUpsert(o) == o.op = "upsert" /\ o.pipeline_id = pid
        ups == SelectSeq(ops, IsUpsert)
    IN [k \in 1..Len(ups) |-> ups[k].external_run_id]

ExpectedParams(chain) ==
    [k \in 1..Len(ChainPages(chain)) |-> ChainPages(chain)[k].param]

ExpectedIds(chain) ==
    [k \in 1..Len(ChainEvents(chain)) |->
        map_partner_run_event(ChainEvents(chain)[k]).v.external_run_id]

IsPrefix(a, b) == Len(a) <= Len(b) /\ \A k \in 1..Len(a) : a[k] = b[k]

\* C5: for a pipeline whose pagination has ended in the pass, the fetch_runs
\* calls are exactly the chain's pages - no cursor first, then each page's
\* next_cursor in order - and every event of these pages was upserted; while
\* the pagination runs, the calls made so far are a prefix of that sequence.
C5_PaginationExhaustion ==
    \A i \in Fetched :
        i <= pidx =>
            LET ext == pipelines[i].external_id.s
                chain == passPartner[ext]
            IN /\ IsPrefix(FetchParams(ext), ExpectedParams(chain))
               /\ (i < pidx \/ pc \in {"loop", "commit", "done"})
                    => /\ FetchParams(ext) = ExpectedParams(chain)
                       /\ UpsertedIds(pipelines[i].id) = ExpectedIds(chain)

\* C5 witness: a pass has completed in which one pipeline took three pages.
C5_Witness ==
    /\ pc = "done"
    /\ \E i \in Fetched :
        FetchParams(pipelines[i].external_id.s) = <<NoCursor, "cursor-2", "cursor-3">>

\* The last HTTP attempt failed in a way the client retries.
RetryableFailure ==
    \/ response.kind = "transport"
    \/ response.kind = "status" /\ response.code \in {429, 500, 502, 503, 504}

\* C6: a fetch_runs call sends at most max_retries + 1 GETs and sleeps at
\* most max_retries times; before each further GET every failed GET has been
\* followed by one sleep; and when GET number max_retries + 1 fails
\* retryably the call raises a request error after max_retries sleeps.
C6_RetryBudget ==
    /\ http.gets <= max_retries + 1
    /\ http.sleeps <= max_retries
    /\ pc = "attempt" => http.sleeps = http.gets
    /\ (RetryableFailure /\ http.gets = max_retries + 1)
          => pc = "raise" /\ err = "request" /\ http.sleeps = max_retries

\* C6 witness: the budget of two retries is used up by retryable failures.
C6_Witness ==
    /\ pc = "raise"
    /\ err = "request"
    /\ RetryableFailure
    /\ max_retries >= 2
    /\ http.gets = max_retries + 1
    /\ http.sleeps = max_retries

\* fetch_runs has just returned a page.
Returned == pc = "events" /\ response.kind = "status"

\* C7: when fetch_runs returns a page after k retryable failures, it has
\* sent k + 1 GETs and slept k times, k is within the budget, and the page
\* is the normalized body of the 200 response.
C7_RetryThenSuccess ==
    Returned =>
        /\ response.code = 200
        /\ attempt <= max_retries
        /\ http.gets = attempt + 1
        /\ http.sleeps = attempt
        /\ page = normalize_page(response.body).v

\* C7 witness: a page is returned after two retries.
C7_Witness == Returned /\ attempt = 2 /\ http.sleeps = 2

\* The last HTTP attempt got an error status that is not retryable.
NonRetryableStatus ==
    /\ response.kind = "status"
    /\ response.code >= 400
    /\ response.code \notin {429, 500, 502, 503, 504}

\* C8: a response with a non-retryable error status ends the call with a
\* request error: no sleep and no GET follows it.
C8_NonRetryableFailsAtOnce ==
    NonRetryableStatus =>
        /\ pc = "raise"
        /\ err = "request"
        /\ http.gets = attempt + 1
        /\ http.sleeps = attempt

\* C8 witness: a 404 ends the call on the first attempt although retries
\* remain.
C8_Witness ==
    /\ NonRetryableStatus
    /\ response.code = 404
    /\ attempt = 0
    /\ max_retries >= 1
    /\ pc = "raise"

\* The client has slept after a failed attempt and not yet sent the next GET.
Slept == pc = "attempt" /\ attempt >= 1

\* The backoff of the sleep just made: backoff * 2^attempt + jitter * backoff.
ComputedBackoff == BackoffMs * Pow2(attempt - 1) + (jitter * BackoffMs) \div 1000

\* C9: the wait after a retryable response with Retry-After "2" is the
\* larger of the computed backoff and 2 seconds; after a response with the
\* unparseable Retry-After "soon", or without the header, or after a
\* transport error, it is the computed backoff.
C9_RetryAfter ==
    Slept =>
        IF response.kind = "status" /\ response.headers.retry_after = JStr("2")
        THEN /\ http.delay >= ComputedBackoff
             /\ http.delay >= 2000
             /\ http.delay \in {ComputedBackoff, 2000}
        ELSE http.delay = ComputedBackoff

\* C9 witness: Retry-After "2" lengthens a first wait of one second to two.
C9_Witness ==
    /\ Slept
    /\ attempt = 1
    /\ jitter = 0
    /\ response.kind = "status"
    /\ response.headers.retry_after = JStr("2")
    /\ http.delay = 2000

\* The last HTTP attempt got a 200 whose body is an object with a runs field
\* that is neither null nor a list.
MalformedRuns ==
    /\ response.kind = "status"
    /\ response.code = 200
    /\ response.body.t = "dict"
    /\ response.body.runs.t \notin {"absent", "null", "list"}

\* C10: a page whose runs field is neither null nor a list makes the fetch
\* fail with a response error; the page is not counted and no upsert
\* follows the fetch_runs call.
C10_MalformedRunsRejected ==
    MalformedRuns =>
        /\ pc = "raise"
        /\ err = "response"
        /\ ops[Len(ops)].op = "fetch"
        /\ counts.pages_processed = Len(FetchParams(Pipeline.external_id.s)) - 1

\* C10 witness: the second page of a pipeline is rejected after the first
\* page's run was upserted.
C10_Witness ==
    /\ MalformedRuns
    /\ err = "response"
    /\ \E k \in 1..Len(ops) : ops[k].op = "upsert" /\ ops[k].pipeline_id = Pipeline.id

\* The raw events the rows of the store were mapped from, with the rows.
Stored == session \cup committed

\* The status of a raw event lies outside the vocabulary of the mapper.
OutsideVocabulary(status) ==
    /\ status.t # "null"
    /\ StripLower(PyStr(status)) \notin
         {"running", "in_progress", "queued", "pending", "success", "succeeded",
          "completed", "failed", "failure", "error", "errored", "canceled",
          "cancelled", "aborted", "skipped"}

\* The reason the mapper generates for a raw status, as the claim words it.
GeneratedReason(status) ==
    CASE status.t = "null" -> "Missing source status; defaulted to 'failed'"
      [] status = JStr("paused") -> "Unknown source status 'paused' normalized to 'failed'"
      [] status = JStr(" Paused") -> "Unknown source status ' Paused' normalized to 'failed'"
      [] status = JStr("") -> "Unknown source status '' normalized to 'failed'"
      [] status = JInt(7) -> "Unknown source status '7' normalized to 'failed'"
      [] OTHER -> "<no reason>"

\* C11: every row mapped from an event whose status is null, missing or
\* outside the vocabulary has status failed; its status_reason is the
\* event's own status_reason when that is neither null nor empty, and
\* otherwise the generated reason, which quotes the raw status value.
C11_StatusDefaulting ==
    \A r \in Stored :
        LET status == Get(r.payload, "status")
            explicit == Get(r.payload, "status_reason")
        IN (status.t = "null" \/ OutsideVocabulary(status))
            => /\ r.status = "failed"
               /\ r.status_reason =
                    IF IsNoneOrEmpty(explicit) THEN JStr(GeneratedReason(status))
                    ELSE explicit

\* C11 witness: rows are stored for an unknown status with the generated
\* reason, for an unknown status with the event's own reason, for a missing
\* status key with the generated reason and for a null status with the
\* event's own reason.
C11_Witness ==
    /\ \E r \in session :
        /\ r.payload.status = JStr("paused")
        /\ r.status_reason = JStr("vendor hold")
    /\ \E r \in session :
        /\ r.payload.status = JInt(7)
        /\ r.status_reason = JStr("Unknown source status '7' normalized to 'failed'")
    /\ \E r \in session :
        /\ r.payload.status = Absent
        /\ r.status_reason = JStr("Missing source status; defaulted to 'failed'")
    /\ \E r \in session :
        /\ r.payload.status = None
        /\ r.status_reason = JStr("vendor hold")

\* The raw event carries no run identity.
NoIdentity(raw_event) ==
    /\ IsNoneOrEmpty(Get(raw_event, "external_run_id"))
    /\ IsNoneOrEmpty(Get(raw_event, "id"))

\* The event the loop of _ingest_pipeline takes next.
NextEvent == page.runs.l[eidx + 1]

\* C12: the key of every stored row is the event's external_run_id when that
\* is present and not empty, otherwise its id; no row is stored for an event
\* that has neither; and the step that takes such an event ends the pass
\* with a mapping error without an upsert.
C12_RunIdentity ==
    /\ [](\A r \in Stored :
            LET first == Get(r.payload, "external_run_id")
                second == Get(r.payload, "id")
            IN /\ ~NoIdentity(r.payload)
               /\ r.external_run_id =
                    IF ~IsNoneOrEmpty(first) THEN PyStr(first) ELSE PyStr(second))
    /\ [][(pc = "events" /\ eidx < Len(page.runs.l) /\ NoIdentity(NextEvent))
            => /\ pc' = "raise"
               /\ err' = "mapping"
               /\ session' = session
               /\ ops' = ops]_vars

\* C12 witness: after a row keyed by the id of an event without
\* external_run_id was stored, an event without identity has ended the pass
\* with a mapping error.
C12_Witness ==
    /\ pc = "raise"
    /\ err = "mapping"
    /\ NoIdentity(NextEvent)
    /\ \E r \in session :
        /\ r.payload.external_run_id = Absent
        /\ r.external_run_id = "run-2"

\* The eligible pipelines: external identifier present, type ingestion,
\* active.
Eligible ==
    {p \in Pipelines :
        /\ ~IsNoneOrEmpty(p.external_id)
        /\ p.pipeline_type = "ingestion"
        /\ p.is_active}

\* The eligible pipelines in ascending creation order.
EligibleInOrder ==
    [i \in 1..Cardinality(Eligible) |->
        CHOOSE p \in Eligible :
            Cardinality({q \in Eligible : q.created_at < p.created_at}) = i - 1]

\* The key under which an event is upserted, if it can be mapped.
IdOf(raw_event) ==
    LET m == map_partner_run_event(raw_event)
    IN IF m.ok THEN m.v.external_run_id ELSE "<unmapped>"

\* The steps a page asks for: its fetch, then one upsert per event in list
\* order.
PageOps(p, pg) ==
    LET evs == IF pg.body.runs.t = "list" THEN pg.body.runs.l ELSE <<>>
    IN <<[op |-> "fetch", ext |-> p.external_id.s,
          cursor |-> IF pg.param = NoCursor THEN None ELSE JStr(pg.param)]>>
       \o [k \in 1..Len(evs) |->
              [op |-> "upsert", pipeline_id |-> p.id, external_run_id |-> IdOf(evs[k])]]

RECURSIVE PagesOps(_, _)
PagesOps(p, pages) ==
    IF pages = <<>> THEN <<>>
    ELSE PageOps(p, Head(pages)) \o PagesOps(p, Tail(pages))

RECURSIVE PipelinesOps(_)
PipelinesOps(ps) ==
    IF ps = <<>> THEN <<>>
    ELSE PagesOps(Head(ps), ChainPages(passPartner[Head(ps).external_id.s]))
         \o PipelinesOps(Tail(ps))

\* The steps of a pass that meets no error: pipeline after pipeline in
\* creation order, page after page, event after event.
FullOps == PipelinesOps(EligibleInOrder)

\* The step at which the pass failed: the fetch_runs call made last, or the
\* event after the upsert made last.
FailedAtFetch == err \in {"request", "response", "jsondecode", "type"}
FailedAtEvent == err \in {"mapping", "store"}

\* C13: the step that meets the first error of a pass ends the pass: it
\* performs no upsert, the steps made before it are a proper beginning of
\* the steps of the pass (so the rest of the page, of the pipeline and all
\* later pipelines are not touched), no fetch_runs call is made twice, and
\* after the error the only step of the pass is the rollback that hands the
\* error to the caller; no counters are returned.
C13_AbortOnFirstError ==
    /\ [](pc \in {"raise", "failed"} =>
            /\ err # "none"
            /\ IsPrefix(ops, FullOps)
            /\ \A j, k \in 1..Len(ops) :
                    (j < k /\ ops[j].op = "fetch" /\ ops[k].op = "fetch")
                        => ops[j] # ops[k]
            /\ FailedAtFetch => ops[Len(ops)].op = "fetch"
            /\ FailedAtEvent =>
                    /\ Len(ops) < Len(FullOps)
                    /\ FullOps[Len(ops) + 1].op = "upsert")
    /\ [][(err = "none" /\ err' # "none") => (pc' = "raise" /\ ops' = ops)]_vars
    /\ [][pc = "raise" =>
            /\ pc' = "failed"
            /\ err' = err
            /\ ops' = ops
            /\ result' = result
            /\ committed' = committed]_vars
    /\ [][pc = "failed" =>
            \/ pc' = "failed" /\ ops' = ops /\ err' = err /\ committed' = committed
            \/ pc' = "loop" /\ ops' = <<>> /\ now' = now + 1]_vars

\* C13 witness: the first pipeline failed on the second event of a page of
\* three; the third event and the second pipeline were not touched.
C13_Witness ==
    /\ pc = "failed"
    /\ err = "mapping"
    /\ pidx = 1
    /\ Len(pipelines) = 3
    /\ Len(page.runs.l) = 3
    /\ ops = <<[op |-> "fetch", ext |-> "ext-1", cursor |-> None],
               [op |-> "upsert", pipeline_id |-> "p1", external_run_id |-> "run-2"]>>

\* The number of steps of one kind in a sequence of steps.
CountOps(seq, kind) == Cardinality({k \in 1..Len(seq) : seq[k].op = kind})

\* C14: the counters returned by a completed pass are the number of
\* eligible pipelines, the number of pages fetched for them and the number
\* of events upserted, a pipeline without runs included.
C14_Counters ==
    pc = "done" =>
        /\ result.pipelines_processed = Cardinality(Eligible)
        /\ result.pages_processed = CountOps(ops, "fetch")
        /\ result.runs_processed = CountOps(ops, "upsert")
        /\ result.pages_processed = CountOps(FullOps, "fetch")
        /\ result.runs_processed = CountOps(FullOps, "upsert")

\* C14 witness: a pass has completed over two pages with six runs for the
\* first pipeline and one page without runs for the second.
C14_Witness ==
    /\ pc = "done"
    /\ passPartner["ext-2"] = "Z"
    /\ result = [pipelines_processed |-> 2, pages_processed |-> 3, runs_processed |-> 6]

\* The rows of the pipelines that are not eligible.
OfOthers(rows) == {r \in rows : r.pipeline_id \notin {p.id : p \in Eligible}}

\* Every fetch_runs call and every upsert of the pass is for an eligible
\* pipeline.
OpsForEligible ==
    \A k \in 1..Len(ops) :
        IF ops[k].op = "fetch"
        THEN \E p \in Eligible : p.external_id = JStr(ops[k].ext)
        ELSE \E p \in Eligible : p.id = ops[k].pipeline_id

\* C15: the pipelines are listed when the pass starts and not again; every
\* fetch_runs call and every upsert of a pass is for an eligible pipeline;
\* and the rows of all other pipelines are, in the transaction and in the
\* committed table, the rows they were before the pass.
C15_Eligibility ==
    /\ [](OpsForEligible /\ OfOthers(session) = OfOthers(before)
            /\ OfOthers(committed) = OfOthers(before))
    /\ [][~Idle => pipelines' = pipelines]_vars

\* C15 witness: a completed pass fetched for both eligible pipelines and
\* stored run-1 of pipeline p1 next to the untouched run-1 of the inactive
\* pipeline p4.
C15_Witness ==
    /\ pc = "done"
    /\ \E k \in 1..Len(ops) : ops[k].op = "fetch" /\ ops[k].ext = "ext-1"
    /\ \E k \in 1..Len(ops) : ops[k].op = "fetch" /\ ops[k].ext = "ext-2"
    /\ \E r \in committed :
        r.pipeline_id = "p1" /\ r.external_run_id = "run-1" /\ r.status = "success"
    /\ \E r \in committed :
        r.pipeline_id = "p4" /\ r.external_run_id = "run-1" /\ r.status = "running"
    /\ Len(pipelines) > Cardinality(Eligible)

\* The keys of a set of rows.
Keys(rows) == {<<r.pipeline_id, r.external_run_id>> : r \in rows}

\* A step keeps every committed row, with its id and its created_at.
CommittedRowsStay ==
    \A r \in committed : \E r2 \in committed' :
        /\ r2.pipeline_id = r.pipeline_id
        /\ r2.external_run_id = r.external_run_id
        /\ r2.id = r.id
        /\ r2.created_at = r.created_at

\* A row with a key that was not committed is created by the current pass.
NewRowsAreCreated ==
    \A r2 \in committed' :
        <<r2.pipeline_id, r2.external_run_id>> \notin Keys(committed)
            => r2.created_at = now

\* C18: every key committed before a pass stays in the transaction and in
\* the committed table during and after the pass; a step never removes a
\* committed row: the row of its key keeps its id and its created_at; and a
\* row with a new key is created by the pass that commits it.
C18_NeverDeletes ==
    /\ [](Keys(before) \subseteq Keys(committed) /\ Keys(before) \subseteq Keys(session))
    /\ [][CommittedRowsStay /\ NewRowsAreCreated]_vars

\* C18 witness: a completed pass that upserted other runs has left in place
\* a run of pipeline p1 that an earlier pass stored and that the partner no
\* longer reports.
C18_Witness ==
    /\ pc = "done"
    /\ \A k \in 1..Len(ChainEvents(passPartner["ext-1"])) :
            IdOf(ChainEvents(passPartner["ext-1"])[k]) # "run-2"
    /\ \E k \in 1..Len(ops) : ops[k].op = "upsert"
    /\ \E r \in committed :
        /\ r.pipeline_id = "p1"
        /\ r.external_run_id = "run-2"
        /\ r.ingested_at < now

\* The time stamps of every stored row: updated_at is ingested_at, which is
\* not before the creation of the row and not after the clock.
StampsInOrder ==
    \A r \in Stored :
        /\ r.updated_at = r.ingested_at
        /\ r.created_at <= r.ingested_at
        /\ r.ingested_at <= now

\* When cond holds, the rows of the keys the pass has upserted carry the
\* clock reading of the pass.
UpsertedNow(rows, cond) ==
    \A k \in 1..Len(ops) :
        (ops[k].op = "upsert" /\ cond) =>
            \A r \in Conflicts(rows, ops[k].pipeline_id, ops[k].external_run_id) :
                r.ingested_at = now

\* A step does not decrease the committed ingested_at of a key.
IngestedAtNeverDecreases ==
    \A r \in committed : \A r2 \in committed' :
        (r2.pipeline_id = r.pipeline_id /\ r2.external_run_id = r.external_run_id)
            => r2.ingested_at >= r.ingested_at

\* C19 as stated: a stored row carries the clock reading of its last upsert
\* in ingested_at and updated_at; the committed ingested_at of a key never
\* decreases; and after a pass that has upserted a key - whether the pass
\* completed or failed - the committed ingested_at of the key is not before
\* the start of that pass.
C19_AsStated ==
    /\ [](StampsInOrder /\ UpsertedNow(session, pc \notin {"done", "failed"})
            /\ UpsertedNow(committed, pc \in {"done", "failed"}))
    /\ [][IngestedAtNeverDecreases]_vars

\* C19: a stored row carries the clock reading of the upsert that wrote it
\* last in ingested_at and updated_at; every key upserted by the running
\* pass has, in its transaction, the reading of this pass, which is not
\* before the start of the pass, also when the upsert brought the values the
\* row already had; after a pass that completed, the committed rows of these
\* keys have it; and the committed ingested_at of a key never decreases.
C19_IngestedAt ==
    /\ [](StampsInOrder /\ UpsertedNow(session, pc # "failed")
            /\ UpsertedNow(committed, pc = "done"))
    /\ [][IngestedAtNeverDecreases]_vars

\* C19 witness: the replay of a pass over the same pages has completed; a
\* row created by the first pass has the same values and the ingested_at of
\* the second.
C19_Witness ==
    /\ pc = "done"
    /\ last.ok
    /\ last.partner = passPartner
    /\ View(committed) = last.view
    /\ \E r \in committed :
        /\ r.pipeline_id = "p1"
        /\ r.created_at = 1
        /\ r.ingested_at = 2
        /\ r.updated_at = 2

\* C20: at every point of a pass the fetch_runs calls and upserts made so
\* far are a beginning of the steps in their strict order - the eligible
\* pipelines by ascending creation time, for each its pages in cursor order,
\* for each page its fetch and then its events in list order - and a pass
\* that completes has made them all; what an upsert stores are the fields
\* the mapper yields for the event.
C20_Sequential ==
    /\ IsPrefix(ops, FullOps)
    /\ pc \in {"commit", "done"} => ops = FullOps
    /\ \A r \in Stored :
        View({r}) = {ExpectedView(r.pipeline_id, map_partner_run_event(r.payload).v)}

\* C20 witness: a pass has completed whose first pipeline had three pages
\* and whose second had two.
C20_Witness ==
    /\ pc = "done"
    /\ Len(ops) = 10
    /\ ops[1] = [op |-> "fetch", ext |-> "ext-1", cursor |-> None]
    /\ ops[3] = [op |-> "fetch", ext |-> "ext-1", cursor |-> JStr("cursor-2")]
    /\ ops[7] = [op |-> "upsert", pipeline_id |-> "p1", external_run_id |-> "run-1"]
    /\ ops[8] = [op |-> "fetch", ext |-> "ext-2", cursor |-> None]
    /\ ops[9] = [op |-> "upsert", pipeline_id |-> "p2", external_run_id |-> "run-1"]
    /\ ops[10] = [op |-> "fetch", ext |-> "ext-2", cursor |-> JStr("7")]

\* ------------------------------------------------ concurrent trigger calls
\* Two requests to the trigger handled at the same time.  Each handler has
\* its own session (get_db_session) and so its own transaction on the shared
\* database, at the default isolation level READ COMMITTED.  A fetch_runs
\* call is one step here: it returns the page or raises.

\* What the partner may serve while requests run side by side.
ConcScenarios ==
    {[e \in {"ext-1", "ext-2"} |-> IF e = "ext-1" THEN a ELSE "Z"] :
        a \in {"A", "B", "C", "R", "H"}}

\* The variables that only the single handler of Spec uses.
seqVars == <<session, max_retries, pc, pipelines, pidx, totals, cursor, counts, page,
             eidx, attempt, response, jitter, http, err, result, ops, before,
             passPartner, last>>

ConcInit ==
    /\ committed = InitialRuns
    /\ session = InitialRuns
    /\ partner \in ConcScenarios
    /\ max_retries = 0
    /\ now = 0
    /\ pc = "idle"
    /\ pipelines = <<>>
    /\ pidx = 0
    /\ totals = ZeroTotals
    /\ cursor = None
    /\ counts = ZeroCounts
    /\ page = NoPage
    /\ eidx = 0
    /\ attempt = 0
    /\ response = NoResponse
    /\ jitter = 0
    /\ http = NoHttp
    /\ err = "none"
    /\ result = ZeroTotals
    /\ ops = <<>>
    /\ before = InitialRuns
    /\ passPartner = partner
    /\ last = [ok |-> FALSE]
    /\ reqs = [i \in Requests |-> IdleReq]

Other(i) == 3 - i

\* The handler of request i is between its call and its commit or rollback.
InProgress(i) == reqs[i].pc \in {"loop", "call", "events", "commit", "raise"}

RowKey(r) == <<r.pipeline_id, r.external_run_id>>

\* The table as the statements of request i see it: the committed rows,
\* with the rows its own transaction has written in their place.
ViewOf(i) ==
    reqs[i].writes
        \cup {r \in committed : \A w \in reqs[i].writes : RowKey(w) # RowKey(r)}

\* INSERT .. ON CONFLICT waits while the other transaction is open and has
\* written the key.
Blocked(i, key) ==
    /\ InProgress(Other(i))
    /\ \E w \in reqs[Other(i)].writes : RowKey(w) = key

\* The partner's data changes at any time.
ConcPartnerUpdate ==
    /\ partner' \in ConcScenarios \ {partner}
    /\ UNCHANGED <<committed, now, reqs, seqVars>>

\* trigger_ingestion_sync is called for request i; each request is handled
\* once, and request 1 is the one that arrives first.
ConcTrigger(i) ==
    /\ reqs[i].pc = "idle"
    /\ i = 2 => reqs[1].pc # "idle"
    /\ now' = now + 1
    /\ reqs' = [reqs EXCEPT
            ![i] = [IdleReq EXCEPT !.pc = "loop",
                                   !.pipelines = list_ingestion_pipelines_with_external_id,
                                   !.overlapped = InProgress(Other(i))],
            ![Other(i)].overlapped = @ \/ InProgress(Other(i))]
    /\ UNCHANGED <<committed, partner, seqVars>>

\* ingest_external_runs: the head of the loop over the pipelines.
ConcNextPipeline(i) ==
    LET q == reqs[i]
    IN /\ q.pc = "loop"
       /\ reqs' = [reqs EXCEPT ![i] =
            IF q.pidx = Len(q.pipelines) THEN [q EXCEPT !.pc = "commit"]
            ELSE IF Falsy(q.pipelines[q.pidx + 1].external_id)
            THEN [q EXCEPT !.pidx = @ + 1]
            ELSE [q EXCEPT !.pidx = @ + 1, !.pc = "call", !.cursor = None,
                           !.page = NoPage, !.eidx = 0]]
       /\ UNCHANGED <<committed, partner, now, seqVars>>

\* fetch_runs returns the normalized page the partner serves now, or raises
\* after its retries.
ConcFetch(i) ==
    LET q == reqs[i]
        ext == q.pipelines[q.pidx].external_id.s
        normalized == normalize_page(ChainBody(partner[ext], CursorParam(q.cursor)))
    IN /\ q.pc = "call"
       /\ \E fails \in BOOLEAN :
            reqs' = [reqs EXCEPT ![i] =
                IF fails THEN [q EXCEPT !.pc = "raise", !.err = "request"]
                ELSE IF ~normalized.ok
                THEN [q EXCEPT !.pc = "raise", !.err = normalized.err]
                ELSE IF ~JobRuns(normalized.v).ok
                THEN [q EXCEPT !.pc = "raise", !.err = "type", !.page = normalized.v]
                ELSE [q EXCEPT !.pc = "events", !.page = normalized.v, !.eidx = 0]]
       /\ UNCHANGED <<committed, partner, now, seqVars>>

\* The row an upsert has written for a key; an inserted row gets an id that
\* no row of any transaction carries (uuid4).
Written(i, rows, key) ==
    LET row == CHOOSE r \in rows : RowKey(r) = key
    IN IF \E r \in ViewOf(i) : RowKey(r) = key THEN row
       ELSE [row EXCEPT !.id =
                FreshId(committed \cup reqs[1].writes \cup reqs[2].writes)]

\* One turn of the event loop of request i.  The statement of upsert_run
\* fails on a CHECK constraint, waits for a key the other transaction has
\* written, or inserts or updates the row; a second row for a key would be
\* refused by the unique constraint.
ConcProcessEvent(i) ==
    LET q == reqs[i]
        pid == q.pipelines[q.pidx].id
        mapped == map_partner_run_event(q.page.runs.l[q.eidx + 1])
        up == upsert_run(ViewOf(i), pid, mapped.v, now)
        key == <<pid, mapped.v.external_run_id>>
    IN /\ q.pc = "events"
       /\ q.eidx < Len(q.page.runs.l)
       /\ IF ~mapped.ok
          THEN reqs' = [reqs EXCEPT ![i] = [q EXCEPT !.pc = "raise", !.err = mapped.err]]
          ELSE IF ~up.ok
          THEN reqs' = [reqs EXCEPT ![i] = [q EXCEPT !.pc = "raise", !.err = up.err]]
          ELSE /\ ~Blocked(i, key)
               /\ reqs' = [reqs EXCEPT ![i] =
                    IF Cardinality(Conflicts(up.v, pid, mapped.v.external_run_id)) > 1
                    THEN [q EXCEPT !.pc = "raise", !.err = "unique"]
                    ELSE [q EXCEPT !.eidx = @ + 1,
                                   !.writes = {w \in @ : RowKey(w) # key}
                                                \cup {Written(i, up.v, key)}]]
       /\ UNCHANGED <<committed, partner, now, seqVars>>

\* Request i waits for a key the other transaction has written.
Waiting(i) ==
    LET q == reqs[i]
        pid == q.pipelines[q.pidx].id
        mapped == map_partner_run_event(q.page.runs.l[q.eidx + 1])
    IN /\ q.pc = "events"
       /\ q.eidx < Len(q.page.runs.l)
       /\ mapped.ok
       /\ upsert_run(ViewOf(i), pid, mapped.v, now).ok
       /\ Blocked(i, <<pid, mapped.v.external_run_id>>)

\* Both transactions wait for each other: the database ends the statement
\* of one of them with a deadlock error.
ConcDeadlock(i) ==
    /\ Waiting(i)
    /\ Waiting(Other(i))
    /\ reqs' = [reqs EXCEPT ![i].pc = "raise", ![i].err = "deadlock"]
    /\ UNCHANGED <<committed, partner, now, seqVars>>

\* After the last event of the page.
ConcEndPage(i) ==
    LET q == reqs[i]
    IN /\ q.pc = "events"
       /\ q.eidx = Len(q.page.runs.l)
       /\ reqs' = [reqs EXCEPT ![i] =
            IF CursorExhausted(Get(q.page, "next_cursor")) THEN [q EXCEPT !.pc = "loop"]
            ELSE [q EXCEPT !.pc = "call", !.cursor = JStr(PyStr(q.page.next_cursor))]]
       /\ UNCHANGED <<committed, partner, now, seqVars>>

\* session.commit() of request i: its rows become the committed ones.
ConcCommit(i) ==
    /\ reqs[i].pc = "commit"
    /\ committed' = ViewOf(i)
    /\ reqs' = [reqs EXCEPT ![i].pc = "done"]
    /\ UNCHANGED <<partner, now, seqVars>>

\* session.rollback() of request i.
ConcRollback(i) ==
    /\ reqs[i].pc = "raise"
    /\ reqs' = [reqs EXCEPT ![i].pc = "failed", ![i].writes = {}]
    /\ UNCHANGED <<committed, partner, now, seqVars>>

ConcNext ==
    \/ ConcPartnerUpdate
    \/ \E i \in Requests : ConcTrigger(i)
    \/ \E i \in Requests : ConcNextPipeline(i)
    \/ \E i \in Requests : ConcFetch(i)
    \/ \E i \in Requests : ConcProcessEvent(i)
    \/ \E i \in Requests : ConcDeadlock(i)
    \/ \E i \in Requests : ConcEndPage(i)
    \/ \E i \in Requests : ConcCommit(i)
    \/ \E i \in Requests : ConcRollback(i)

ConcSpec == ConcInit /\ [][ConcNext]_vars

\* C16: at most one sync pass is in progress at any time.
C16_OnePassAtATime == ~(InProgress(1) /\ InProgress(2))

\* All rows of the database: committed or written by an open transaction.
AllRows == committed \cup reqs[1].writes \cup reqs[2].writes

\* The mutable fields of the row are those of one upsert: the ones the
\* mapper yields for the payload the row carries.
FromOneUpsert(r) ==
    View({r}) = {ExpectedView(r.pipeline_id, map_partner_run_event(r.payload).v)}

\* Both requests have committed.
BothDone == reqs[1].pc = "done" /\ reqs[2].pc = "done"

\* C17: with two passes running side by side, the committed table and the
\* view of each transaction hold at most one row per key; the mutable fields
\* of every row are those of a single upsert; no pass fails on the unique
\* constraint; and when both passes have committed, the row of a key both
\* have upserted is the row one of them wrote.
C17_AtomicUpsert ==
    /\ UniqueKeys(committed)
    /\ \A i \in Requests : UniqueKeys(ViewOf(i))
    /\ \A r \in AllRows : FromOneUpsert(r)
    /\ \A i \in Requests : reqs[i].err # "unique"
    /\ BothDone =>
        \A w1 \in reqs[1].writes : \A w2 \in reqs[2].writes :
            RowKey(w1) = RowKey(w2) =>
                \E r \in committed :
                    /\ r \in {w1, w2}
                    /\ Conflicts(committed, r.pipeline_id, r.external_run_id) = {r}

\* C17 witness: two passes that ran side by side have both committed run-1
\* of pipeline p1, one as running and one as success.
C17_Witness ==
    /\ BothDone
    /\ reqs[1].overlapped
    /\ reqs[2].overlapped
    /\ \E w1 \in reqs[1].writes : \E w2 \in reqs[2].writes :
        /\ RowKey(w1) = <<"p1", "run-1">>
        /\ RowKey(w2) = <<"p1", "run-1">>
        /\ w1.status # w2.status
        /\ w1.id = w2.id

\* ------------------------------------------------------ claims, continued
\* The event the loop of _ingest_pipeline has upserted last.
Upserted == pc = "events" /\ eidx >= 1
LastEvent == page.runs.l[eidx]
LastMapped == map_partner_run_event(LastEvent).v

\* The key of the event upserted last had a row before this upsert: one
\* committed before the pass or one written earlier in the pass.
Resighted ==
    /\ Upserted
    /\ \/ Conflicts(before, Pipeline.id, LastMapped.external_run_id) # {}
       \/ \E k \in 1..(Len(ops) - 1) :
            /\ ops[k].op = "upsert"
            /\ ops[k].pipeline_id = Pipeline.id
            /\ ops[k].external_run_id = LastMapped.external_run_id

\* The row of the key upserted last.
LastRow == CHOOSE r \in session :
    r.pipeline_id = Pipeline.id /\ r.external_run_id = LastMapped.external_run_id

\* C21: right after the upsert of an event whose key already had a row,
\* each of status, started_at, finished_at, duration_seconds,
\* rows_processed, error_message, status_reason and payload of the row is
\* the value the mapper yields for this event - null where the mapper
\* yields null, whatever the row held before.
C21_WholesaleReplace ==
    Resighted =>
        /\ Cardinality(Conflicts(session, Pipeline.id, LastMapped.external_run_id)) = 1
        /\ LastRow.status = LastMapped.status
        /\ LastRow.started_at = LastMapped.started_at
        /\ LastRow.finished_at = LastMapped.finished_at
        /\ LastRow.duration_seconds = LastMapped.duration_seconds
        /\ LastRow.rows_processed = LastMapped.rows_processed
        /\ LastRow.error_message = LastMapped.error_message
        /\ LastRow.status_reason = LastMapped.status_reason
        /\ LastRow.payload = LastEvent

\* C21 witness: a run committed as success with finished_at and
\* duration_seconds has been sighted again as running, with finished_at
\* null and duration_seconds empty, and the row has lost both values.
C21_Witness ==
    /\ Resighted
    /\ \E b \in Conflicts(before, Pipeline.id, LastMapped.external_run_id) :
        /\ b.finished_at.t = "int"
        /\ b.duration_seconds.t = "int"
    /\ LastEvent.finished_at = None
    /\ LastEvent.duration_seconds = JStr("")
    /\ LastRow.finished_at = None
    /\ LastRow.duration_seconds = None

\* The failed attempt came without a Retry-After header that could be read:
\* a transport error, or a retryable status without the header or with an
\* unparseable one.
BackoffOnly(resp) ==
    \/ resp.kind = "transport"
    \/ resp.kind = "status" /\ resp.headers.retry_after \in {Absent, JStr("soon")}

\* The wait before retry number a, for a jitter given in thousandths.
BackoffFormula(a, j) == BackoffMs * Pow2(a) + (j * BackoffMs) \div 1000

\* The sleep just made is the one before retry number attempt - 1 of the
\* call, and the jitter is one of the values jitter_fn returns.
WaitByFormula ==
    (Slept /\ BackoffOnly(response)) =>
        /\ jitter \in Jitters
        /\ http.delay = BackoffFormula(attempt - 1, jitter)
        /\ jitter = 0 => http.delay = BackoffMs * Pow2(http.sleeps - 1)

\* Two successive sleeps of one call, both without jitter and without
\* Retry-After: the second wait is twice the first.
WaitDoubles ==
    (/\ Slept
     /\ BackoffOnly(response)
     /\ jitter = 0
     /\ pc' = "attempt"
     /\ attempt' = attempt + 1
     /\ BackoffOnly(response')
     /\ jitter' = 0)
        => http'.delay = 2 * http.delay

\* C22: when no Retry-After applies, the wait before retry number a of a
\* call is backoff * 2^a + jitter * backoff, where the jitter is drawn for
\* this retry; the first wait without jitter is the backoff, and of two
\* successive waits without jitter the second is twice the first.
C22_BackoffFormula ==
    /\ [](WaitByFormula)
    /\ [][WaitDoubles]_vars

\* C22 witness: the second wait of a call, made after a connection error
\* without jitter, is two seconds.
C22_Witness ==
    /\ Slept
    /\ response.kind = "transport"
    /\ attempt = 2
    /\ http.sleeps = 2
    /\ jitter = 0
    /\ http.delay = 2 * BackoffMs

\* The last HTTP attempt got a response with a non-error status.
GotSuccessStatus == response.kind = "status" /\ response.code < 400

\* The body is a JSON object whose runs field is absent, null or a list.
WellFormed(body) ==
    /\ body.t = "dict"
    /\ body.runs.t \in {"absent", "null", "list"}

\* The page the claim describes for a well-formed body.
PageOf(body) ==
    [runs |-> IF body.runs.t = "list" THEN body.runs ELSE JList(<<>>),
     next_cursor |->
        CASE body.next_cursor.t \in {"absent", "null"} -> None
          [] body.next_cursor.t = "str" -> body.next_cursor
          [] body.next_cursor.t = "int" -> JStr(IntToStr(body.next_cursor.i))]

\* C23: after a response with a non-error status, fetch_runs has returned
\* a page exactly when the body is a JSON object whose runs field is
\* absent, null or a list; the page has the list, or the empty list, as
\* runs and the next_cursor as a string or null; for every other body - a
\* runs field of another type, a body that is not valid JSON - the call
\* has failed with a response error.
C23_PageNormalization ==
    GotSuccessStatus =>
        IF WellFormed(response.body)
        THEN /\ pc = "events"
             /\ err = "none"
             /\ page = PageOf(response.body)
             /\ page.runs.t = "list"
             /\ page.next_cursor.t \in {"null", "str"}
        ELSE /\ pc = "raise"
             /\ err = "response"

\* -------------------------------------------------- one pass, wider inputs
\* A single pass over partners that serve the whole status vocabulary,
\* counts at and below zero, and the same run more than once.
WideScenarios ==
    {[e \in {"ext-1", "ext-2"} |-> IF e = "ext-1" THEN "V" ELSE b] : b \in {"N", "W"}}
    \cup {[e \in {"ext-1", "ext-2"} |-> "W"]}

WideInit ==
    /\ committed = InitialRuns
    /\ session = InitialRuns
    /\ partner \in WideScenarios
    /\ max_retries \in 0..MaxRetriesCfg
    /\ now = MaxPasses - 1
    /\ pc = "idle"
    /\ pipelines = <<>>
    /\ pidx = 0
    /\ totals = ZeroTotals
    /\ cursor = None
    /\ counts = ZeroCounts
    /\ page = NoPage
    /\ eidx = 0
    /\ attempt = 0
    /\ response = NoResponse
    /\ jitter = 0
    /\ http = NoHttp
    /\ err = "none"
    /\ result = ZeroTotals
    /\ ops = <<>>
    /\ before = InitialRuns
    /\ passPartner = partner
    /\ last = [ok |-> FALSE]
    /\ reqs = [i \in Requests |-> IdleReq]

WideSpec == WideInit /\ [][Next]_vars

\* ---------------------------------------------------------- a pass in time
\* One pass against a partner that may hand out a cursor again and again
\* (chain L): the handler thread keeps running, every HTTP attempt ends
\* (with a response, an error or the timeout), every sleep ends and every
\* statement returns, so a step of a started pass that can be taken is
\* taken.
LiveScenarios ==
    {[e \in {"ext-1", "ext-2"} |-> IF e = "ext-1" THEN a ELSE "Z"] : a \in {"L", "C"}}

LiveInit ==
    /\ committed = InitialRuns
    /\ session = InitialRuns
    /\ partner \in LiveScenarios
    /\ max_retries \in 0..1
    /\ now = MaxPasses - 1
    /\ pc = "idle"
    /\ pipelines = <<>>
    /\ pidx = 0
    /\ totals = ZeroTotals
    /\ cursor = None
    /\ counts = ZeroCounts
    /\ page = NoPage
    /\ eidx = 0
    /\ attempt = 0
    /\ response = NoResponse
    /\ jitter = 0
    /\ http = NoHttp
    /\ err = "none"
    /\ result = ZeroTotals
    /\ ops = <<>>
    /\ before = InitialRuns
    /\ passPartner = partner
    /\ last = [ok |-> FALSE]
    /\ reqs = [i \in Requests |-> IdleReq]

\* A step of the handler between the call of the trigger and its return.
PassStep ==
    \/ NextPipeline
    \/ CallFetch
    \/ AttemptTransportError
    \/ AttemptRequestException
    \/ AttemptRetryableStatus
    \/ AttemptHttpError
    \/ AttemptSuccess
    \/ ProcessEvent
    \/ EndPage
    \/ Commit
    \/ Rollback

LiveSpec == LiveInit /\ [][Next]_vars /\ WF_vars(PassStep)

\* C24: a pass that has started ends: the pagination loop of every pipeline
\* is left after finitely many fetches, and the pass returns its counters
\* or fails.
C24_PassTerminates == (pc \notin {"idle", "done", "failed"}) ~> (pc \in {"done", "failed"})

\* A count is absent or not negative.
NonNegative(v) == v.t = "null" \/ v.i >= 0

\* The mapper accepts the event and yields a negative duration_seconds or
\* rows_processed.
NegativeCount(raw_event) ==
    LET m == map_partner_run_event(raw_event)
    IN /\ m.ok
       /\ ~(NonNegative(m.v.duration_seconds) /\ NonNegative(m.v.rows_processed))

\* The pass has ended at an event of the current page.
EndedAtEvent ==
    /\ pc \in {"raise", "failed"}
    /\ page.runs.t = "list"
    /\ eidx < Len(page.runs.l)

\* C25: every row, in the transaction and committed, has duration_seconds
\* absent or >= 0 and rows_processed absent or >= 0, and none was mapped
\* from an event with a negative count; the event loop never gets past
\* such an event: the pass ends at it with a store error, and it ends with
\* a store error at no other event.
C25_NonNegativeCounts ==
    /\ \A r \in Stored :
        /\ NonNegative(r.duration_seconds)
        /\ NonNegative(r.rows_processed)
        /\ ~NegativeCount(r.payload)
    /\ Upserted => ~NegativeCount(LastEvent)
    /\ EndedAtEvent => (NegativeCount(NextEvent) <=> err = "store")

\* C25 witness: after a run with both counts zero was stored, the pass has
\* ended with a store error at an event with rows_processed -5.
C25_Witness ==
    /\ pc = "raise"
    /\ err = "store"
    /\ NextEvent.rows_processed = JInt(-5)
    /\ \E r \in session :
        /\ r.pipeline_id = Pipeline.id
        /\ r.duration_seconds = JInt(0)
        /\ r.rows_processed = JInt(0)
    /\ \A r \in session : r.payload # NextEvent

\* The raw status values of the claim: null, the empty string, and strings
\* in and outside the vocabulary, in any letter case and padded.
RawStatusValues ==
    {None, JStr(""), JStr("paused"), JStr(" Paused")}
        \cup {JStr(RawStatuses[k]) : k \in 1..Len(RawStatuses)}

\* The five canonical statuses, and the one the vocabulary gives for a
\* trimmed, lower-cased source status.
CanonicalStatuses == {"running", "success", "failed", "canceled", "skipped"}
Vocabulary(k) ==
    CASE k \in {"running", "in_progress", "queued", "pending"} -> {"running"}
      [] k \in {"success", "succeeded", "completed"} -> {"success"}
      [] k \in {"failed", "failure", "error", "errored"} -> {"failed"}
      [] k \in {"canceled", "cancelled", "aborted"} -> {"canceled"}
      [] k = "skipped" -> {"skipped"}
      [] OTHER -> {}

\* The raw value is a string whose trimmed, lower-cased form is in the
\* vocabulary.
InVocabulary(raw) == raw.t = "str" /\ Vocabulary(StripLower(raw.s)) # {}

\* The status of the event plays no part in a mapping error: the event
\* fails to map with status success as well.
FailsWhateverStatus(raw_event) ==
    ~map_partner_run_event([raw_event EXCEPT !.status = JStr("success")]).ok

\* C26: for every raw status the mapper returns one of the five canonical
\* statuses; for a value whose trimmed, lower-cased form is in the
\* vocabulary it returns the vocabulary's status and no generated reason;
\* no event fails to map because of its status; and every row written by
\* ingestion has a status of the enumeration - for a status of the
\* vocabulary the canonical one, with the event's own reason or none.
C26_StatusTotal ==
    /\ \A raw \in RawStatusValues :
        /\ normalize_partner_status(raw).status \in CanonicalStatuses
        /\ InVocabulary(raw) =>
            /\ normalize_partner_status(raw).status \in Vocabulary(StripLower(raw.s))
            /\ normalize_partner_status(raw).reason = None
    /\ \A r \in Stored :
        /\ r.status \in CanonicalStatuses
        /\ InVocabulary(Get(r.payload, "status")) =>
            /\ r.status \in Vocabulary(StripLower(r.payload.status.s))
            /\ r.status_reason = as_optional_string(Get(r.payload, "status_reason"))
    /\ (EndedAtEvent /\ err = "mapping") => FailsWhateverStatus(NextEvent)

\* C26 witness: a pass has committed the rows of all eighteen source
\* statuses of the vocabulary, among them a padded upper-case one, with all
\* five canonical statuses.
C26_Witness ==
    /\ pc = "done"
    /\ \A k \in 1..Len(RawStatuses) :
        \E r \in committed :
            /\ r.pipeline_id = "p1"
            /\ r.external_run_id = RawStatuses[k]
            /\ r.status_reason = None
    /\ {r.status : r \in {q \in committed : q.pipeline_id = "p1"}} = CanonicalStatuses
    /\ \E r \in committed : r.external_run_id = " SUCCEEDED " /\ r.status = "success"
    /\ \E r \in committed : r.external_run_id = "CANCELLED" /\ r.status = "canceled"

\* A step keeps the configuration of the client, and the step that enters
\* fetch_runs starts the call without attempts made.
CallStartsAfresh ==
    /\ max_retries' = max_retries
    /\ (pc = "call" /\ pc' = "attempt") =>
        /\ attempt' = 0
        /\ http' = NoHttp

\* Within a call: the attempt about to be made is number attempt, after as
\* many GETs and sleeps, and within the budget; the first wait is the
\* initial backoff; a call that fails for retryable failures has used the
\* whole budget.
BudgetOfTheCall ==
    /\ pc = "attempt" =>
        /\ attempt <= max_retries
        /\ http.gets = attempt
        /\ http.sleeps = attempt
    /\ (Slept /\ attempt = 1 /\ BackoffOnly(response)) =>
        http.delay = BackoffFormula(0, jitter)
    /\ (pc = "raise" /\ err = "request" /\ RetryableFailure) =>
        /\ attempt = max_retries
        /\ http.sleeps = max_retries

\* C27: a fetch_runs call leaves the client's configuration as it was, and
\* every call - for the first page, a later page or a later pipeline -
\* starts at attempt 0, waits the initial backoff first and has max_retries
\* retries of its own.
C27_BudgetPerCall ==
    /\ [](BudgetOfTheCall)
    /\ [][CallStartsAfresh]_vars

\* C27 witness: the call for the second page of the second pipeline fails
\* after it has used a budget of two retries.
C27_Witness ==
    /\ pc = "raise"
    /\ err = "request"
    /\ RetryableFailure
    /\ pidx = 2
    /\ cursor = JStr("cursor-2")
    /\ max_retries = 2
    /\ http.sleeps = 2
    /\ http.gets = 3

\* The events the partner serves in the pass for the i-th listed pipeline,
\* in page-then-list order, and all their occurrences.
EventsOf(i) == ChainEvents(passPartner[pipelines[i].external_id.s])
Occurrences == UNION {{<<i, k>> : k \in 1..Len(EventsOf(i))} : i \in Fetched}

\* The key of an occurrence, and the occurrence is the last one of its key.
KeyOf(o) == <<pipelines[o[1]].id, IdOf(EventsOf(o[1])[o[2]])>>
IsLastOfKey(o) ==
    \A o2 \in Occurrences : (KeyOf(o2) = KeyOf(o) /\ o2[1] = o[1]) => o2[2] <= o[2]

\* The rows the pass has created or updated.
Touched(rows) == {r \in rows : r.ingested_at = now}

\* C28: when a pass has completed, every key it sighted - once or several
\* times, in one page or across pages - has exactly one row, with the
\* values of the key's last occurrence in page-then-list order;
\* runs_processed is the number of occurrences; and the rows the pass has
\* created or updated are one per sighted key, so at most runs_processed.
C28_DuplicateSightings ==
    pc = "done" =>
        /\ \A o \in Occurrences :
            LET hit == {r \in committed : RowKey(r) = KeyOf(o)}
            IN /\ Cardinality(hit) = 1
               /\ IsLastOfKey(o) =>
                    View(hit) = {ExpectedView(KeyOf(o)[1],
                                    map_partner_run_event(EventsOf(o[1])[o[2]]).v)}
        /\ result.runs_processed = Cardinality(Occurrences)
        /\ Keys(Touched(committed)) = {KeyOf(o) : o \in Occurrences}
        /\ Cardinality(Touched(committed)) = Cardinality({KeyOf(o) : o \in Occurrences})
        /\ Cardinality(Touched(committed)) <= result.runs_processed

\* C28 witness: a pass has completed in which the second pipeline had
\* run-1 three times and run-2 twice, in one page and across pages; it
\* counted more runs than it wrote rows, and run-1 holds the values of its
\* last occurrence.
C28_Witness ==
    /\ pc = "done"
    /\ 2 \in Fetched
    /\ Len(EventsOf(2)) = 5
    /\ Cardinality({r \in Touched(committed) : r.pipeline_id = "p2"}) = 2
    /\ Cardinality(Touched(committed)) < result.runs_processed
    /\ \E r \in committed :
        /\ RowKey(r) = <<"p2", "run-1">>
        /\ r.payload = EvOther
        /\ r.duration_seconds = JInt(120)

\* The rows of one pipeline.
RowsOf(rows, pid) == {r \in rows : r.pipeline_id = pid}

\* A step of the event loop leaves the rows of every pipeline but the
\* current one as they are.
OtherPipelinesUntouched ==
    pc = "events" =>
        \A p \in Pipelines :
            p.id # Pipeline.id => RowsOf(session', p.id) = RowsOf(session, p.id)

\* The events the partner serves in the pass for the pipeline of a row.
ServedFor(pid) ==
    LET p == CHOOSE q \in Pipelines : q.id = pid
    IN IF Falsy(p.external_id) \/ p.external_id.s \notin DOMAIN passPartner THEN <<>>
       ELSE ChainEvents(passPartner[p.external_id.s])

\* Every row is as it was before the pass or was written in the pass from
\* an event served for its own pipeline; rows are told apart by their id.
WrittenUnderOwnPipeline ==
    /\ \A r \in session :
        \/ r \in before
        \/ /\ r.ingested_at = now
           /\ \E k \in 1..Len(ServedFor(r.pipeline_id)) :
                ServedFor(r.pipeline_id)[k] = r.payload
    /\ \A r1, r2 \in session : r1.id = r2.id => r1 = r2

\* C29: an upsert for one pipeline creates, changes and removes no row of
\* another pipeline, also when that pipeline has a run with the same
\* external_run_id: the two are two rows with ids of their own, and every
\* row is changed only by events served for its own pipeline.
C29_ScopedByPipeline ==
    /\ [](WrittenUnderOwnPipeline)
    /\ [][OtherPipelinesUntouched]_vars

\* C29 witness: run-1 of the second pipeline has been updated while the
\* first pipeline and the inactive pipeline p4 each have a run-1 of their
\* own, with other values.
C29_Witness ==
    /\ Resighted
    /\ Pipeline.id = "p2"
    /\ LastMapped.external_run_id = "run-1"
    /\ \E r1 \in RowsOf(session, "p1") : \E r4 \in RowsOf(session, "p4") :
        /\ r1.external_run_id = "run-1"
        /\ r4.external_run_id = "run-1"
        /\ r1.status # LastRow.status
        /\ r4.ingested_at < now
        /\ Cardinality({r1.id, r4.id, LastRow.id}) = 3

\* The rows of a table that have the key of a row committed before the
\* pass carry that row's id and created_at.
KeepsIdentity(rows) ==
    \A b \in before : \A r \in rows :
        RowKey(r) = RowKey(b) => (r.id = b.id /\ r.created_at = b.created_at)

\* C30: a key committed before a pass keeps its row id and its created_at
\* through the upserts and the commit of the pass, while ingested_at and
\* updated_at move to the time of the upsert; a key first sighted in the
\* pass has the created_at of the pass, however often the pass sights it;
\* and every row has updated_at equal to ingested_at.
C30_KeepsIdAndCreatedAt ==
    /\ KeepsIdentity(session)
    /\ KeepsIdentity(committed)
    /\ \A r \in session :
        /\ RowKey(r) \notin Keys(before) => r.created_at = now
        /\ r.updated_at = r.ingested_at
        /\ r.created_at <= r.ingested_at
    /\ \A r \in committed : r.updated_at = r.ingested_at
    /\ Resighted => (LastRow.ingested_at = now /\ LastRow.updated_at = now)

\* C30 witness: a run created by the first pass has been upserted by the
\* second with another status; its row has the id and the created_at of
\* the first pass and the ingested_at and updated_at of the second.
C30_Witness ==
    /\ Resighted
    /\ now = 2
    /\ \E b \in before :
        /\ RowKey(b) = RowKey(LastRow)
        /\ b.created_at = 1
        /\ b.ingested_at = 1
        /\ b.status # LastRow.status
        /\ b.id = LastRow.id
    /\ LastRow.created_at = 1
    /\ LastRow.ingested_at = 2
    /\ LastRow.updated_at = 2

====
